---- MODULE Spec2Model ----
(***************************************************************************)
(* Model of julian-hoelz/mastermind: the fancy_io terminal toolkit         *)
(* (format-tag compiler, format-string compiler, interactive prompt        *)
(* engine) and the console game built on it.                               *)
(*                                                                         *)
(* Strings are sequences of characters; a character is a one-character     *)
(* string, and the characters that have no TLA+ spelling carry a name:     *)
(* "ESC" is \x1b, "DC1" is \x11, "DC2" is \x12, "TAB" is \t, "LF" is \n,   *)
(* "NDASH" is the en dash.                                                 *)
(* Python values that may be None, a mode or an int are tagged records.    *)
(***************************************************************************)
EXTENDS Integers, Sequences, FiniteSets, TLC

VARIABLES
    text,     \* the string handed to the function under study
    opts,     \* the keyword arguments of the call
    pc,       \* position of the caller: "input", "done", "read", ...
    res,      \* what the call produced
    log       \* what a prompt call did with the line it read last, in order

vars == <<text, opts, pc, res, log>>

(***************************************************************************)
(* Python values                                                           *)
(***************************************************************************)
None == [kind |-> "none"]
PyInt(n) == [kind |-> "int", n |-> n]
PyMode(m) == [kind |-> "mode", mode |-> m]
PyTuple(s) == [kind |-> "seq", seq |-> s]

DigitChars == <<"0", "1", "2", "3", "4", "5", "6", "7", "8", "9">>

IsDigit(c) == \E i \in 1..10 : DigitChars[i] = c

DigitVal(c) == (CHOOSE i \in 1..10 : DigitChars[i] = c) - 1

RECURSIVE StrNat(_)
StrNat(n) == IF n < 10 THEN <<DigitChars[n + 1]>>
             ELSE StrNat(n \div 10) \o <<DigitChars[(n % 10) + 1]>>

\* str(int)
StrInt(n) == IF n < 0 THEN <<"-">> \o StrNat(-n) ELSE StrNat(n)

\* str(code) of an Escape: the code is an int or an already joined string
PyStr(code) == IF code.kind = "int" THEN StrInt(code.n) ELSE code.str

RECURSIVE Join(_, _)
Join(sep, strs) ==
    IF Len(strs) = 0 THEN <<>>
    ELSE IF Len(strs) = 1 THEN strs[1]
    ELSE strs[1] \o sep \o Join(sep, Tail(strs))

RECURSIVE ConcatAll(_)
ConcatAll(strs) == IF Len(strs) = 0 THEN <<>> ELSE strs[1] \o ConcatAll(Tail(strs))

Contains(s, x) == \E i \in 1..Len(s) : s[i] = x

\* s[a:b] with 0-based, end-exclusive Python indexes, 0 <= a
Slice(s, a, b) == IF b <= a THEN <<>> ELSE SubSeq(s, a + 1, IF b > Len(s) THEN Len(s) ELSE b)

\* an append that tests the last element only
AppendIfNotLast(ls, value) ==
    IF Len(ls) > 0 /\ ls[Len(ls)] = value THEN ls ELSE Append(ls, value)

AppendIfNotInList(ls, value) == IF Contains(ls, value) THEN ls ELSE Append(ls, value)

(***************************************************************************)
(* Mode registry                                                           *)
(***************************************************************************)
ColorMode(name, fg_code, bg_code, key) ==
    [name |-> name, cls |-> "color", fg_code |-> PyInt(fg_code), bg_code |-> PyInt(bg_code),
     fg_key |-> <<key>>, bg_key |-> <<"#", key>>]

StyleMode(name, code, reset_mode, key) ==
    [name |-> name, cls |-> "style", code |-> PyInt(code), key |-> <<key>>, reset_mode |-> reset_mode]

ResetMode(name, code, key) ==
    [name |-> name, cls |-> "reset", code |-> code, key |-> <<"!", key>>]

RESET_ALL == ResetMode("RESET_ALL", PyInt(0), "a")
RESET_ALL_STYLES ==
    ResetMode("RESET_ALL_STYLES",
              [kind |-> "str",
               str |-> <<"2","2",";","2","3",";","2","4",";","2","5",";","2","7",";","2","8",";","2","9">>],
              "s")
RESET_BOLD_DIM == ResetMode("RESET_BOLD_DIM", PyInt(22), "f")
RESET_ITALIC == ResetMode("RESET_ITALIC", PyInt(23), "i")
RESET_UNDERLINE == ResetMode("RESET_UNDERLINE", PyInt(24), "u")
RESET_BLINKING == ResetMode("RESET_BLINKING", PyInt(25), "o")
RESET_INVERSED == ResetMode("RESET_INVERSED", PyInt(27), "I")
\* a RESET_HIDDEN under the key of RESET_STRIKETHROUGH
RESET_HIDDEN_shared_key == ResetMode("RESET_HIDDEN", PyInt(28), "S")
RESET_HIDDEN == ResetMode("RESET_HIDDEN", PyInt(28), "x")
RESET_STRIKETHROUGH == ResetMode("RESET_STRIKETHROUGH", PyInt(29), "S")

COLOR_MODES == <<
    ColorMode("DEFAULT_COLOR", 39, 49, "d"),
    ColorMode("BLACK", 30, 40, "n"),
    ColorMode("RED", 31, 41, "r"),
    ColorMode("GREEN", 32, 42, "g"),
    ColorMode("YELLOW", 33, 43, "y"),
    ColorMode("BLUE", 34, 44, "b"),
    ColorMode("MAGENTA", 35, 45, "m"),
    ColorMode("CYAN", 36, 46, "c"),
    ColorMode("WHITE", 37, 47, "w"),
    ColorMode("BBLACK", 90, 100, "N"),
    ColorMode("BRED", 91, 101, "R"),
    ColorMode("BGREEN", 92, 102, "G"),
    ColorMode("BYELLOW", 93, 103, "Y"),
    ColorMode("BBLUE", 94, 104, "B"),
    ColorMode("BMAGENTA", 95, 105, "M"),
    ColorMode("BCYAN", 96, 106, "C"),
    ColorMode("BWHITE", 97, 107, "W") >>

STYLE_MODES == <<
    StyleMode("BOLD", 1, RESET_BOLD_DIM, "f"),
    StyleMode("DIM", 2, RESET_BOLD_DIM, "D"),
    StyleMode("ITALIC", 3, RESET_ITALIC, "i"),
    StyleMode("UNDERLINE", 4, RESET_UNDERLINE, "u"),
    StyleMode("DOUBLE_UNDERLINE", 21, RESET_UNDERLINE, "U"),
    StyleMode("BLINKING", 5, RESET_BLINKING, "o"),
    StyleMode("RAPID_BLINKING", 6, RESET_BLINKING, "O"),
    StyleMode("INVERSED", 7, RESET_INVERSED, "I"),
    StyleMode("HIDDEN", 8, RESET_HIDDEN, "x"),
    StyleMode("STRIKETHROUGH", 9, RESET_STRIKETHROUGH, "S") >>

RESET_MODES == <<RESET_ALL, RESET_ALL_STYLES, RESET_BOLD_DIM, RESET_ITALIC, RESET_UNDERLINE,
                 RESET_BLINKING, RESET_INVERSED, RESET_HIDDEN, RESET_STRIKETHROUGH>>

\* dict.get of a dict built by a comprehension over a tuple of modes: the
\* last mode with the key wins, a missing key gives None
DictGet(modes, keys, char) ==
    LET hits == {i \in 1..Len(modes) : keys[i] = char}
    IN  IF hits = {} THEN None
        ELSE PyMode(modes[CHOOSE i \in hits : \A j \in hits : j <= i])

ColorKeys == [i \in 1..Len(COLOR_MODES) |-> COLOR_MODES[i].fg_key[1]]
StyleKeys == [i \in 1..Len(STYLE_MODES) |-> STYLE_MODES[i].key[1]]
ResetKeys == [i \in 1..Len(RESET_MODES) |-> RESET_MODES[i].key[2]]

COLOR_MODES_FOR_FORMAT_CHARS(char) == DictGet(COLOR_MODES, ColorKeys, char)
STYLE_MODES_FOR_FORMAT_CHARS(char) == DictGet(STYLE_MODES, StyleKeys, char)
RESET_MODES_FOR_FORMAT_CHARS(char) == DictGet(RESET_MODES, ResetKeys, char)

\* membership in the string joined from the keys of the three dicts
InAllKeyLetters(char) ==
    \/ COLOR_MODES_FOR_FORMAT_CHARS(char) # None
    \/ STYLE_MODES_FOR_FORMAT_CHARS(char) # None
    \/ RESET_MODES_FOR_FORMAT_CHARS(char) # None

\* Mode.escape(for_bg).code
EscapeCode(m, for_bg) ==
    IF m.cls = "color" THEN (IF for_bg THEN m.bg_code ELSE m.fg_code) ELSE m.code

(***************************************************************************)
(* Escape sequences                                                        *)
(***************************************************************************)
\* truth value of a Python object (None, 0 and the empty tuple are false)
Truthy(v) ==
    CASE v.kind = "none" -> FALSE
      [] v.kind = "int" -> v.n # 0
      [] v.kind = "seq" -> Len(v.seq) > 0
      [] v.kind = "str" -> Len(v.str) > 0
      [] OTHER -> TRUE

\* None, one mode or a collection of modes, as the tuple _code_list iterates
AsTuple(v) ==
    CASE v.kind = "none" -> <<>>
      [] v.kind = "mode" -> <<v.mode>>
      [] OTHER -> v.seq

code_for_color_mode_or_num(color_mode_or_num, for_bg) ==
    IF color_mode_or_num.kind = "int"
    THEN StrInt(IF for_bg THEN 48 ELSE 38) \o <<";", "5", ";">> \o StrInt(color_mode_or_num.n)
    ELSE PyStr(EscapeCode(color_mode_or_num.mode, for_bg))

code_list_fg_first(resets, fg, bg, styles) ==
    LET rs == AsTuple(resets)
        ss == AsTuple(styles)
    IN  [i \in 1..Len(rs) |-> PyStr(rs[i].code)]
        \o [i \in 1..Len(ss) |-> PyStr(ss[i].code)]
        \o (IF fg # None THEN <<code_for_color_mode_or_num(fg, FALSE)>> ELSE <<>>)
        \o (IF bg # None THEN <<code_for_color_mode_or_num(bg, TRUE)>> ELSE <<>>)

code_list(resets, fg, bg, styles) ==
    LET rs == AsTuple(resets)
        ss == AsTuple(styles)
    IN  [i \in 1..Len(rs) |-> PyStr(rs[i].code)]
        \o [i \in 1..Len(ss) |-> PyStr(ss[i].code)]
        \o (IF bg # None THEN <<code_for_color_mode_or_num(bg, TRUE)>> ELSE <<>>)
        \o (IF fg # None THEN <<code_for_color_mode_or_num(fg, FALSE)>> ELSE <<>>)

NoModeCombi == None
ModeCombi(fg, bg, styles) == [kind |-> "combi", fg |-> fg, bg |-> bg, styles |-> styles]

escseq(resets, fg, bg, styles, mode_combi) ==
    LET fg2 == IF mode_combi # None /\ Truthy(mode_combi.fg) THEN mode_combi.fg ELSE fg
        bg2 == IF mode_combi # None /\ Truthy(mode_combi.bg) THEN mode_combi.bg ELSE bg
        styles2 == IF mode_combi # None /\ Truthy(mode_combi.styles) THEN mode_combi.styles ELSE styles
        codes == code_list(resets, fg2, bg2, styles2)
    IN  IF Len(codes) = 0 THEN <<>>
        ELSE <<"ESC", "[">> \o Join(<<";">>, codes) \o <<"m">>

escseq_fg_or_bg(color, for_bg, resets, styles) ==
    IF for_bg THEN escseq(resets, None, color, styles, NoModeCombi)
    ELSE escseq(resets, color, None, styles, NoModeCombi)

(***************************************************************************)
(* FormatTag: one bracket-delimited tag                                    *)
(***************************************************************************)
NoError == [type |-> "none", msg |-> "", invalid |-> <<>>]

\* FormatTag._invalid_key_error(invalid)
invalid_key_error(invalid) ==
    [type |-> "ValueError", msg |-> "invalid format key", invalid |-> invalid]

\* _invalid_key_error('!', char): two arguments for one parameter
InvalidKeyErrorArity == [type |-> "TypeError", msg |-> "takes 2 positional arguments but 3 were given",
                         invalid |-> <<>>]

DanglingMarker == <<"expected key after '!' or '#'">>

RECURSIVE ParseNat(_)
\* int(s) of a string of ASCII digits
ParseNat(s) == IF Len(s) = 0 THEN 0
               ELSE 10 * ParseNat(SubSeq(s, 1, Len(s) - 1)) + DigitVal(s[Len(s)])

\* a _parse_256_color that takes every number for a palette index
parse_256_color_unlimited(n_256_str, fg_color, bg_color, bg_marker) ==
    IF bg_marker
    THEN [err |-> NoError, fg |-> fg_color, bg |-> PyInt(ParseNat(n_256_str))]
    ELSE [err |-> NoError, fg |-> PyInt(ParseNat(n_256_str)), bg |-> bg_color]

\* FormatTag._parse_256_color: (fg_color, bg_color) or the error
parse_256_color(n_256_str, fg_color, bg_color, bg_marker) ==
    LET n_256_int == ParseNat(n_256_str)
    IN  IF n_256_int > 255
        THEN [err |-> invalid_key_error(n_256_str), fg |-> fg_color, bg |-> bg_color]
        ELSE IF bg_marker
        THEN [err |-> NoError, fg |-> fg_color, bg |-> PyInt(n_256_int)]
        ELSE [err |-> NoError, fg |-> PyInt(n_256_int), bg |-> bg_color]

\* the closure set_n_256_color(index_inc) of _calc_mode_attrs, at loop index i
set_n_256_color(st, tag_content, i, index_inc) ==
    IF st.n_256_start = None THEN st
    ELSE LET n_256_str == Slice(tag_content, st.n_256_start.n, i + index_inc)
             r == parse_256_color(n_256_str, st.fg_color, st.bg_color, st.bg_marker)
         IN  IF r.err # NoError THEN [st EXCEPT !.err = r.err]
             ELSE [st EXCEPT !.fg_color = r.fg, !.bg_color = r.bg,
                             !.n_256_start = None, !.bg_marker = FALSE]

Raise(st, e) == [st EXCEPT !.err = e]

IsSeparator(char) == char \in {" ", "TAB", ",", ";"}

\* one iteration of the loop over tag_content for the character char at
\* the 0-based index i; flushed is the state after set_n_256_color()
ScanCharFlushed(st, char, i, flushed) ==
        CASE char = "#" ->
               IF st.reset_marker THEN Raise(st, invalid_key_error(<<"!", "#">>))
               ELSE IF st.bg_marker THEN Raise(st, invalid_key_error(<<"#", "#">>))
               ELSE IF flushed.err # NoError THEN flushed
               ELSE [flushed EXCEPT !.bg_marker = TRUE]
          [] char = "!" ->
               IF st.reset_marker THEN Raise(st, invalid_key_error(<<"!", "!">>))
               ELSE IF st.bg_marker THEN Raise(st, invalid_key_error(<<"#", "!">>))
               ELSE IF flushed.err # NoError THEN flushed
               ELSE [flushed EXCEPT !.reset_marker = TRUE]
          [] IsSeparator(char) ->
               IF st.reset_marker THEN Raise(st, invalid_key_error(<<"!", char>>))
               ELSE IF flushed.err # NoError THEN flushed
               ELSE IF flushed.bg_marker THEN Raise(flushed, invalid_key_error(<<"#", char>>))
               ELSE flushed
          [] IsDigit(char) ->
               IF st.reset_marker THEN Raise(st, invalid_key_error(<<"!", char>>))
               ELSE IF st.n_256_start = None THEN [st EXCEPT !.n_256_start = PyInt(i)]
               ELSE st
          [] OTHER ->
               IF ~InAllKeyLetters(char) THEN Raise(st, invalid_key_error(<<char>>))
               ELSE IF flushed.err # NoError THEN flushed
               ELSE IF flushed.bg_marker
               THEN LET bg_color == COLOR_MODES_FOR_FORMAT_CHARS(char)
                    IN  IF bg_color = None
                        THEN Raise([flushed EXCEPT !.bg_color = None],
                                   invalid_key_error(<<"#", char>>))
                        ELSE [flushed EXCEPT !.bg_color = bg_color, !.bg_marker = FALSE]
               ELSE IF flushed.reset_marker
               THEN LET reset_mode == RESET_MODES_FOR_FORMAT_CHARS(char)
                    IN  IF reset_mode = None THEN Raise(flushed, InvalidKeyErrorArity)
                        ELSE [flushed EXCEPT
                                !.resets = AppendIfNotInList(flushed.resets, reset_mode.mode),
                                !.reset_marker = FALSE]
               ELSE LET style == STYLE_MODES_FOR_FORMAT_CHARS(char)
                    IN  IF style = None
                        THEN [flushed EXCEPT !.fg_color = COLOR_MODES_FOR_FORMAT_CHARS(char)]
                        ELSE [flushed EXCEPT
                                !.styles = AppendIfNotInList(flushed.styles, style.mode),
                                !.resets_of_styles =
                                    AppendIfNotInList(flushed.resets_of_styles, style.mode.reset_mode)]

ScanStart == [resets |-> <<>>, styles |-> <<>>, bg_color |-> None, fg_color |-> None,
              resets_of_styles |-> <<>>, reset_marker |-> FALSE, bg_marker |-> FALSE,
              n_256_start |-> None, err |-> NoError]

ScanChar(st, tag_content, i) ==
    ScanCharFlushed(st, tag_content[i + 1], i, set_n_256_color(st, tag_content, i, 0))

RECURSIVE ScanFrom(_, _, _)
\* the loop from index i on; a raised error ends it
ScanFrom(st, tag_content, i) ==
    IF i >= Len(tag_content) \/ st.err # NoError THEN st
    ELSE ScanFrom(ScanChar(st, tag_content, i), tag_content, i + 1)

\* statements after the loop that let a marker end the tag content
ScanEndAnyLastChar(scanned, tag_content) ==
    IF Len(tag_content) = 0 \/ scanned.err # NoError THEN scanned
    ELSE IF scanned.n_256_start # None
    THEN set_n_256_color(scanned, tag_content, Len(tag_content) - 1, 1)
    ELSE scanned

\* the statements after the loop
ScanEnd(scanned, tag_content) ==
    IF Len(tag_content) = 0 \/ scanned.err # NoError THEN scanned
    ELSE IF tag_content[Len(tag_content)] \in {"!", "#"}
    THEN Raise(scanned, invalid_key_error(DanglingMarker))
    ELSE IF scanned.n_256_start # None
    THEN set_n_256_color(scanned, tag_content, Len(tag_content) - 1, 1)
    ELSE scanned

ScanContent(tag_content) == ScanEnd(ScanFrom(ScanStart, tag_content, 0), tag_content)

\* FormatTag._calc_mode_attrs
calc_mode_attrs(str_value, tag_brackets) ==
    IF ~(Len(str_value) > 0 /\ str_value[1] = tag_brackets[1]
         /\ str_value[Len(str_value)] = tag_brackets[2])
    THEN Raise(ScanStart, [type |-> "ValueError",
                           msg |-> "Tag does not start and end with the given brackets",
                           invalid |-> <<>>])
    ELSE ScanContent(Slice(str_value, 1, Len(str_value) - 1))

\* a _calc_color_escseq that hands on the colour alone
calc_color_escseq_colour_only(color, for_bg, resets, styles) ==
    IF color = None THEN <<>>
    ELSE escseq_fg_or_bg(color, for_bg, None, None)

\* FormatTag._calc_color_escseq
calc_color_escseq(color, for_bg, resets, styles) ==
    IF color = None THEN <<>>
    ELSE escseq_fg_or_bg(color, for_bg, PyTuple(resets), PyTuple(styles))

\* FormatTag._calc_escseqs, for the attributes a; a tag whose scan raised
\* has no escape sequences
calc_escseqs(str_value, a, ok) ==
    [err |-> a.err,
     str_value |-> str_value,
     resets |-> a.resets,
     styles |-> a.styles,
     bg_color |-> a.bg_color,
     fg_color |-> a.fg_color,
     resets_of_styles |-> a.resets_of_styles,
     resets_escseq |-> IF ok THEN escseq(PyTuple(a.resets), None, None, None, NoModeCombi) ELSE <<>>,
     styles_escseq |-> IF ok THEN escseq(None, None, None, PyTuple(a.styles), NoModeCombi) ELSE <<>>,
     bg_color_escseq |-> IF ok THEN calc_color_escseq(a.bg_color, TRUE, a.resets, a.styles) ELSE <<>>,
     fg_color_escseq |-> IF ok THEN calc_color_escseq(a.fg_color, FALSE, a.resets, a.styles) ELSE <<>>,
     resets_of_styles_escseq |->
         IF ok THEN escseq(PyTuple(a.resets_of_styles), None, None, None, NoModeCombi) ELSE <<>>,
     full_escseq |->
         IF ok THEN escseq(PyTuple(a.resets), a.fg_color, a.bg_color, PyTuple(a.styles), NoModeCombi)
         ELSE <<>>]

FormatTagOf(str_value, a) == calc_escseqs(str_value, a, a.err = NoError)

\* FormatTag(str_value, tag_brackets): the attributes and the six escape sequences
FormatTag(str_value, tag_brackets) ==
    FormatTagOf(str_value, calc_mode_attrs(str_value, tag_brackets))

(***************************************************************************)
(* Bracket validation                                                      *)
(***************************************************************************)
BracketsRepl_OPEN == "DC1"
BracketsRepl_CLOSED == "DC2"

\* _brackets_mismatch_error(format_str, index_1, index_2, ..., error_msg):
\* the ValueError, with the indexes the validator hands to the diagnostics
brackets_mismatch_error(index_1, index_2, error_msg) ==
    [type |-> "ValueError", msg |-> error_msg, invalid |-> <<>>,
     index_1 |-> index_1, index_2 |-> index_2]

MsgDoubleOpen == "Two consecutive open tag brackets are not allowed"
MsgUnmatchedClosed == "Unmatched closed tag bracket"
MsgUnclosedOpen == "Unclosed open tag bracket"

RECURSIVE CheckFrom(_, _, _, _, _)
\* the loop of _check_brackets_match from 0-based index i on
CheckFrom(format_str, brackets, i, obi, opened) ==
    IF i >= Len(format_str)
    THEN IF opened THEN brackets_mismatch_error(obi, None, MsgUnclosedOpen) ELSE NoError
    ELSE LET char == format_str[i + 1]
         IN  IF char = brackets[1]
             THEN IF opened THEN brackets_mismatch_error(obi, PyInt(i), MsgDoubleOpen)
                  ELSE CheckFrom(format_str, brackets, i + 1, i, TRUE)
             ELSE IF char = brackets[2]
             THEN IF ~opened THEN brackets_mismatch_error(i, None, MsgUnmatchedClosed)
                  ELSE CheckFrom(format_str, brackets, i + 1, obi, FALSE)
             ELSE CheckFrom(format_str, brackets, i + 1, obi, opened)

check_brackets_match_no_final_check(format_str, brackets) ==
    LET r == CheckFrom(format_str, brackets, 0, 0, FALSE)
    IN  IF r # NoError /\ r.msg = MsgUnclosedOpen THEN NoError ELSE r

check_brackets_match(format_str, brackets) == CheckFrom(format_str, brackets, 0, 0, FALSE)

(***************************************************************************)
(* Format strings                                                          *)
(***************************************************************************)
RECURSIVE Replace(_, _, _)
\* str.replace(old, new) for a non-empty old: leftmost, non-overlapping
Replace(str, old, new) ==
    IF Len(str) < Len(old) THEN str
    ELSE IF SubSeq(str, 1, Len(old)) = old
    THEN new \o Replace(SubSeq(str, Len(old) + 1, Len(str)), old, new)
    ELSE <<str[1]>> \o Replace(Tail(str), old, new)

\* the position (1-based) of the first closed bracket after position s that
\* '.*?' can reach, 0 when a line break or the end of the string comes first
RECURSIVE TagEnd(_, _, _)
TagEnd(str, ctb, e) ==
    IF e > Len(str) THEN 0
    ELSE IF str[e] = ctb THEN e
    ELSE IF str[e] = "LF" THEN 0
    ELSE TagEnd(str, ctb, e + 1)

RECURSIVE TagSpans(_, _, _, _)
\* the matches of the regular expression otb.*?ctb from position s on, as
\* <<first, last>> pairs: what re.findall returns and re.split cuts at
TagSpans(str, otb, ctb, s) ==
    IF s > Len(str) THEN <<>>
    ELSE IF str[s] = otb /\ TagEnd(str, ctb, s + 1) # 0
    THEN <<<<s, TagEnd(str, ctb, s + 1)>>>> \o TagSpans(str, otb, ctb, TagEnd(str, ctb, s + 1) + 1)
    ELSE TagSpans(str, otb, ctb, s + 1)

\* re.findall(tag_re, format_str)
re_findall(str, otb, ctb) ==
    LET sp == TagSpans(str, otb, ctb, 1)
    IN  [k \in 1..Len(sp) |-> SubSeq(str, sp[k][1], sp[k][2])]

\* re.split(tag_re, format_str)
re_split(str, otb, ctb) ==
    LET sp == TagSpans(str, otb, ctb, 1)
        n == Len(sp)
    IN  [k \in 1..(n + 1) |->
            SubSeq(str, IF k = 1 THEN 1 ELSE sp[k - 1][2] + 1,
                        IF k = n + 1 THEN Len(str) ELSE sp[k][1] - 1)]

ResetAllTag == <<"<", "!", "a", ">">>

place_reset_all_tags(format_str, start_reset_all, end_reset_all) ==
    (IF start_reset_all THEN ResetAllTag ELSE <<>>) \o format_str
    \o (IF end_reset_all THEN ResetAllTag ELSE <<>>)

\* the first error among the compiled tags, in list order
FirstTagError(compiled) ==
    IF \A k \in 1..Len(compiled) : compiled[k].err = NoError THEN NoError
    ELSE compiled[CHOOSE k \in 1..Len(compiled) :
                      /\ compiled[k].err # NoError
                      /\ \A j \in 1..(k - 1) : compiled[j].err = NoError].err

\* the two replace calls that turn backslash-escaped brackets into the
\* private replacement characters
escape_tag_brackets(format_str, tag_brackets) ==
    Replace(Replace(format_str, <<"\\", tag_brackets[1]>>, <<BracketsRepl_OPEN>>),
            <<"\\", tag_brackets[2]>>, <<BracketsRepl_CLOSED>>)

\* the tags compiled one by one
CompileTags(tags, tag_brackets) == [k \in 1..Len(tags) |-> FormatTag(tags[k], tag_brackets)]

\* ''.join(p + s for (p, s) in zip(parts, escseqs)) + parts[-1]
JoinParts(parts, compiled) ==
    ConcatAll([k \in 1..Len(compiled) |-> parts[k] \o compiled[k].full_escseq])
    \o parts[Len(parts)]

\* the two replace calls that bring the escaped brackets back
unescape_tag_brackets(result, tag_brackets) ==
    Replace(Replace(result, <<BracketsRepl_OPEN>>, <<tag_brackets[1]>>),
            <<BracketsRepl_CLOSED>>, <<tag_brackets[2]>>)

\* the statements of fancyformat after the placing of the reset-all tags
FormatPlaced(mismatch, parts, compiled, first_error, tag_brackets) ==
    IF mismatch # NoError THEN [err |-> mismatch, out |-> <<>>]
    ELSE IF first_error # NoError THEN [err |-> first_error, out |-> <<>>]
    ELSE [err |-> NoError, out |-> unescape_tag_brackets(JoinParts(parts, compiled), tag_brackets)]

FormatTags(mismatch, parts, compiled, tag_brackets) ==
    FormatPlaced(mismatch, parts, compiled, FirstTagError(compiled), tag_brackets)

\* the pairs of brackets that get a backslash in the regular expression
EscapedInTagRe == { <<"(", ")">>, <<"[", "]">>, <<"{", "}">> }

\* the error of re.findall for the regular expression of the tags: an
\* open bracket '(' that gets no backslash opens a group that never ends
tag_re_error(tag_brackets) ==
    IF tag_brackets \notin EscapedInTagRe /\ tag_brackets[1] = "("
    THEN [type |-> "re.error", msg |-> "missing ), unterminated subpattern", invalid |-> <<>>]
    ELSE NoError

\* the statements of fancyformat after the escaping of the brackets
FormatEscaped(mismatch, placed, tag_brackets) ==
    IF mismatch = NoError /\ tag_re_error(tag_brackets) # NoError
    THEN [err |-> tag_re_error(tag_brackets), out |-> <<>>]
    ELSE FormatTags(mismatch, re_split(placed, tag_brackets[1], tag_brackets[2]),
                    CompileTags(re_findall(placed, tag_brackets[1], tag_brackets[2]), tag_brackets),
                    tag_brackets)

FormatChecked(escaped, tag_brackets, start_reset_all, end_reset_all) ==
    FormatEscaped(check_brackets_match(escaped, tag_brackets),
                  place_reset_all_tags(escaped, start_reset_all, end_reset_all), tag_brackets)

\* fancyformat(format_str, tag_brackets, start_reset_all, end_reset_all):
\* the compiled string, or the error the call raises
fancyformat(format_str, tag_brackets, start_reset_all, end_reset_all) ==
    FormatChecked(escape_tag_brackets(format_str, tag_brackets), tag_brackets,
                  start_reset_all, end_reset_all)

(***************************************************************************)
(* Specification of the tag compiler: a caller builds the content of one   *)
(* tag character by character and has FormatTag parse it.                  *)
(***************************************************************************)
MaxTagLen == 4

DefaultBrackets == <<"<", ">">>

\* characters a tag is typed from: colour keys, style keys, a key that is
\* only a reset suffix, both markers, two separators, a digit, a foreign
\* letter
TagAlphabet == {"r", "c", "f", "U", "a", "#", "!", ",", " ", "5", "z"}

\* tags longer than MaxTagLen that the scenarios of the specification name
TagSeeds == { <<>>,
              <<"c", "#", "r", "f", "!", "a">>,
              <<"!", "s", "!", "a", "U", "f", "#", "5", ",", "2", "5", "5">>,
              <<"f", "!", "f", "f", "!", "f", "r">> }

NoResult == [err |-> NoError]

InitTag ==
    /\ text \in TagSeeds
    /\ opts = [fn |-> "FormatTag", tag_brackets |-> DefaultBrackets]
    /\ pc = "input"
    /\ res = NoResult
    /\ log = <<>>

TypeTagChar ==
    /\ pc = "input"
    /\ Len(text) < MaxTagLen
    /\ \E char \in TagAlphabet : text' = Append(text, char)
    /\ UNCHANGED <<opts, pc, res, log>>

ParseTag ==
    /\ pc = "input"
    /\ res' = FormatTag(<<opts.tag_brackets[1]>> \o text \o <<opts.tag_brackets[2]>>, opts.tag_brackets)
    /\ pc' = "done"
    /\ UNCHANGED <<text, opts, log>>

NextTag == TypeTagChar \/ ParseTag

SpecTag == InitTag /\ [][NextTag]_vars

(***************************************************************************)
(* Reading a tag's content directly, for the statements about FormatTag    *)
(***************************************************************************)
RECURSIVE DropRepeats(_)
\* the sequence without the later occurrences of a value
DropRepeats(seq) ==
    IF Len(seq) = 0 THEN <<>>
    ELSE LET front == DropRepeats(SubSeq(seq, 1, Len(seq) - 1))
         IN  IF Contains(front, seq[Len(seq)]) THEN front ELSE Append(front, seq[Len(seq)])

RECURSIVE Pick(_, _, _)
\* the characters of content at the positions from i on that satisfy Wanted
Pick(content, Wanted(_, _), i) ==
    IF i > Len(content) THEN <<>>
    ELSE (IF Wanted(content, i) THEN <<content[i]>> ELSE <<>>) \o Pick(content, Wanted, i + 1)

IsResetKeyAt(content, i) == i > 1 /\ content[i - 1] = "!"

IsStyleKeyAt(content, i) ==
    /\ \E k \in 1..Len(STYLE_MODES) : STYLE_MODES[k].key = <<content[i]>>
    /\ ~(i > 1 /\ content[i - 1] \in {"!", "#"})

\* codes of the reset keys of a tag content, in first-occurrence order
ResetCodesInOrder(content) ==
    LET keys == DropRepeats(Pick(content, IsResetKeyAt, 1))
    IN  [k \in 1..Len(keys) |->
            PyStr(RESET_MODES[CHOOSE j \in 1..Len(RESET_MODES) : RESET_MODES[j].key = <<"!", keys[k]>>].code)]

\* codes of the style keys of a tag content, in first-occurrence order
StyleCodesInOrder(content) ==
    LET keys == DropRepeats(Pick(content, IsStyleKeyAt, 1))
    IN  [k \in 1..Len(keys) |->
            PyStr(STYLE_MODES[CHOOSE j \in 1..Len(STYLE_MODES) : STYLE_MODES[j].key = <<keys[k]>>].code)]

\* the one code of a colour slot: a palette index or a mode's code
SlotCode(color, palette_prefix, for_bg) ==
    IF color = None THEN <<>>
    ELSE IF color.kind = "int" THEN <<palette_prefix \o <<";", "5", ";">> \o StrInt(color.n)>>
    ELSE <<StrInt(IF for_bg THEN color.mode.bg_code.n ELSE color.mode.fg_code.n)>>

\* resets, styles, background, foreground
CodesInFixedOrder(content, parsed) ==
    ResetCodesInOrder(content) \o StyleCodesInOrder(content)
    \o SlotCode(parsed.bg_color, <<"4", "8">>, TRUE) \o SlotCode(parsed.fg_color, <<"3", "8">>, FALSE)

TagParsed == pc = "done" /\ opts.fn = "FormatTag" /\ res.err = NoError

\* C1: for every parsed tag the full escape sequence is ESC [ codes m with the
\* codes joined by ';' in the order resets, styles, background, foreground
\* (resets and styles in first-occurrence order), and a tag that yields no
\* code renders to the empty string, never to ESC [ m.
C1_full_escseq_fixed_order ==
    TagParsed =>
        LET codes == CodesInFixedOrder(text, res)
        IN  /\ Len(codes) > 0 => res.full_escseq = <<"ESC", "[">> \o Join(<<";">>, codes) \o <<"m">>
            /\ Len(codes) = 0 => res.full_escseq = <<>>
            /\ res.full_escseq # <<"ESC", "[", "m">>

\* C1 witness: resets, styles, a background and a foreground in one tag,
\* rendered in that order although typed in another
C1_witness_all_four_kinds ==
    /\ TagParsed
    /\ text = <<"c", "#", "r", "f", "!", "a">>
    /\ res.full_escseq = <<"ESC", "[", "0", ";", "1", ";", "4", "1", ";", "3", "6", "m">>

(***************************************************************************)
(* Specification of the format-string compiler: a caller builds a format   *)
(* string character by character and has fancyformat compile it.           *)
(***************************************************************************)
MaxTextLen == 4

\* characters a format string is typed from: both brackets, the backslash,
\* a colour key, a letter that is no key, a line break, the character that
\* stands in for an escaped open bracket
TextAlphabet(tag_brackets) ==
    {tag_brackets[1], tag_brackets[2], "\\", "r", "z", "LF", BracketsRepl_OPEN}

\* format strings longer than MaxTextLen that the specification names
TextSeeds == { <<>>,
               <<"<", "r", ">", "E", "R", "R", "O", "R", "<", "!", "a", ">">>,
               <<"<", "f", "U", ",", "c", ">", "T", "i", "t", "l", "e", "<", "!", "a", ">">>,
               <<"a", "\\", "<", "b", "\\", ">", "<", "r", ">", "c">> }

InitFormat ==
    /\ text \in TextSeeds
    /\ opts \in [fn : {"fancyformat"},
                 tag_brackets : {DefaultBrackets, <<"[", "]">>, <<"(", "]">>},
                 start_reset_all : BOOLEAN,
                 end_reset_all : BOOLEAN]
    /\ pc = "input"
    /\ res = NoResult
    /\ log = <<>>

TypeTextChar ==
    /\ pc = "input"
    /\ Len(text) < MaxTextLen
    /\ \E char \in TextAlphabet(opts.tag_brackets) : text' = Append(text, char)
    /\ UNCHANGED <<opts, pc, res, log>>

Compile ==
    /\ pc = "input"
    /\ res' = fancyformat(text, opts.tag_brackets, opts.start_reset_all, opts.end_reset_all)
    /\ pc' = "done"
    /\ UNCHANGED <<text, opts, log>>

NextFormat == TypeTextChar \/ Compile

SpecFormat == InitFormat /\ [][NextFormat]_vars

FormatReturned == pc = "done" /\ opts.fn = "fancyformat" /\ res.err = NoError

\* the position of the first closed bracket at or after position j that no
\* backslash precedes, 0 when there is none
RECURSIVE RefTagEnd(_, _, _)
RefTagEnd(str, ctb, j) ==
    IF j > Len(str) THEN 0
    ELSE IF str[j] = ctb /\ str[j - 1] # "\\" THEN j
    ELSE RefTagEnd(str, ctb, j + 1)

\* what the documentation of the format-string compiler describes, read
\* left to right from position i: a backslash before a bracket gives the
\* bare bracket, an open bracket starts a tag that ends at the next closed
\* bracket no backslash precedes and gives the tag's full escape sequence,
\* every other character is literal text.  ok: every tag met was parsed.
RECURSIVE RefScan(_, _, _)
RefScan(str, tag_brackets, i) ==
    IF i > Len(str) THEN [ok |-> TRUE, out |-> <<>>]
    ELSE IF str[i] = "\\" /\ i < Len(str) /\ str[i + 1] \in {tag_brackets[1], tag_brackets[2]}
    THEN LET rest == RefScan(str, tag_brackets, i + 2)
         IN  [ok |-> rest.ok, out |-> <<str[i + 1]>> \o rest.out]
    ELSE IF str[i] = tag_brackets[1] /\ RefTagEnd(str, tag_brackets[2], i + 1) # 0
    THEN LET j == RefTagEnd(str, tag_brackets[2], i + 1)
             tag == FormatTag(SubSeq(str, i, j), tag_brackets)
             rest == RefScan(str, tag_brackets, j + 1)
         IN  [ok |-> tag.err = NoError /\ rest.ok,
              out |-> (IF tag.err = NoError THEN tag.full_escseq ELSE <<>>) \o rest.out]
    ELSE LET rest == RefScan(str, tag_brackets, i + 1)
         IN  [ok |-> rest.ok, out |-> <<str[i]>> \o rest.out]

\* the reference for a whole call: the implicit reset-all tags are placed
\* as text around the format string and read like the rest of it
RefCompile(format_str, tag_brackets, start_reset_all, end_reset_all) ==
    LET head == RefScan(IF start_reset_all THEN ResetAllTag ELSE <<>>, tag_brackets, 1)
        body == RefScan(format_str, tag_brackets, 1)
        foot == RefScan(IF end_reset_all THEN ResetAllTag ELSE <<>>, tag_brackets, 1)
    IN  [ok |-> head.ok /\ body.ok /\ foot.ok, out |-> head.out \o body.out \o foot.out]

\* C2: whenever fancyformat returns, its result is the literal spans of the
\* text interleaved in order with the full escape sequence of each tag, every
\* backslash-escaped bracket appearing as the bare bracket and opening or
\* closing no tag; "<r>ERROR<!a>" compiles to ESC[31m ERROR ESC[0m.
C2_compile_interleaves_spans_and_tags ==
    FormatReturned =>
        LET ref == RefCompile(text, opts.tag_brackets, opts.start_reset_all, opts.end_reset_all)
        IN  /\ ref.ok
            /\ res.out = ref.out

\* the same statement for the format strings that hold no line break and
\* no replacement character of an escaped bracket
C2_interleaving_without_line_break ==
    (FormatReturned /\ ~Contains(text, "LF") /\ ~Contains(text, BracketsRepl_OPEN)) =>
        LET ref == RefCompile(text, opts.tag_brackets, opts.start_reset_all, opts.end_reset_all)
        IN  /\ ref.ok
            /\ res.out = ref.out

\* the documented example of C2 is compiled as documented
C2_example_compiled ==
    /\ FormatReturned
    /\ text = <<"<", "r", ">", "E", "R", "R", "O", "R", "<", "!", "a", ">">>
    /\ opts.tag_brackets = DefaultBrackets /\ ~opts.start_reset_all /\ ~opts.end_reset_all
    /\ res.out = <<"ESC", "[", "3", "1", "m", "E", "R", "R", "O", "R", "ESC", "[", "0", "m">>

\* a bracketed line break passed validation and came back as literal text
C2_line_break_in_brackets ==
    /\ FormatReturned
    /\ text = <<"<", "LF", ">">>
    /\ res.out = text

\* the 0-based indexes, ascending from index i, at which a string holds
\* one of the two brackets
RECURSIVE DelimiterIndexes(_, _, _)
DelimiterIndexes(str, brackets, i) ==
    IF i >= Len(str) THEN <<>>
    ELSE (IF str[i + 1] \in {brackets[1], brackets[2]} THEN <<i>> ELSE <<>>)
         \o DelimiterIndexes(str, brackets, i + 1)

\* the k-th delimiter breaks the alternation opener, closer, opener, closer
BreaksAlternation(str, brackets, d, k) ==
    IF k % 2 = 1 THEN str[d[k] + 1] = brackets[2] ELSE str[d[k] + 1] = brackets[1]

\* what the validator is documented to answer for a string whose escaped
\* brackets are already replaced: no error exactly when the delimiters
\* alternate and end closed, else the error of the first violation
BalancedVerdict(str, brackets) ==
    LET d == DelimiterIndexes(str, brackets, 0)
        bad == {k \in 1..Len(d) : BreaksAlternation(str, brackets, d, k)}
    IN  IF bad # {}
        THEN LET k == CHOOSE x \in bad : \A y \in bad : x <= y
             IN  IF k % 2 = 1
                 THEN brackets_mismatch_error(d[k], None, MsgUnmatchedClosed)
                 ELSE brackets_mismatch_error(d[k - 1], PyInt(d[k]), MsgDoubleOpen)
        ELSE IF Len(d) % 2 = 1
        THEN brackets_mismatch_error(d[Len(d)], None, MsgUnclosedOpen)
        ELSE NoError

IsMismatchError(e) == e.msg \in {MsgDoubleOpen, MsgUnmatchedClosed, MsgUnclosedOpen}

FormatCompiled == pc = "done" /\ opts.fn = "fancyformat"

\* C3: the validator accepts a text exactly when its unescaped delimiters
\* alternate opener, closer and end closed; otherwise it fails at the first
\* violation from the left: double-open with the indexes of the open opener
\* and of the second opener, unmatched-closer with the closer's index, or
\* unclosed-opener with the index of the last opener.
C3_check_brackets_match_verdict ==
    FormatCompiled =>
        LET expected == BalancedVerdict(escape_tag_brackets(text, opts.tag_brackets), opts.tag_brackets)
        IN  /\ expected # NoError => res.err = expected
            /\ expected = NoError => ~IsMismatchError(res.err)

\* C3 witness: an escaped opener followed by two openers; the escaped one
\* is no delimiter, so the error is double-open at indexes 1 and 2
C3_witness_double_open_after_escape ==
    /\ FormatCompiled
    /\ text = <<"\\", "<", "<", "<">>
    /\ res.err = brackets_mismatch_error(1, PyInt(2), MsgDoubleOpen)

(***************************************************************************)
(* Interactive prompts: helpers                                            *)
(***************************************************************************)
\* a Python str, where None is possible too
Str(s) == [kind |-> "str", str |-> s]

UpperLetters == <<"A", "B", "C", "D", "E", "F", "G", "H", "I", "J", "K", "L", "M",
                  "N", "O", "P", "Q", "R", "S", "T", "U", "V", "W", "X", "Y", "Z">>
LowerLetters == <<"a", "b", "c", "d", "e", "f", "g", "h", "i", "j", "k", "l", "m",
                  "n", "o", "p", "q", "r", "s", "t", "u", "v", "w", "x", "y", "z">>

\* str.lower() and str.upper()
lower(s) ==
    [i \in 1..Len(s) |-> IF \E k \in 1..26 : UpperLetters[k] = s[i]
                         THEN LowerLetters[CHOOSE k \in 1..26 : UpperLetters[k] = s[i]]
                         ELSE s[i]]
upper(s) ==
    [i \in 1..Len(s) |-> IF \E k \in 1..26 : LowerLetters[k] = s[i]
                         THEN UpperLetters[CHOOSE k \in 1..26 : LowerLetters[k] = s[i]]
                         ELSE s[i]]

IsSpace(c) == c \in {" ", "TAB"}

\* the 1-based position of the first character of s from position i on that
\* is (want = TRUE) or is not (want = FALSE) whitespace; Len(s) + 1 if none
RECURSIVE FindSpace(_, _, _)
FindSpace(s, i, want) ==
    IF i > Len(s) \/ IsSpace(s[i]) = want THEN i ELSE FindSpace(s, i + 1, want)

RECURSIVE SplitFrom(_, _)
\* str.split(): the maximal runs without whitespace
SplitFrom(s, i) ==
    IF FindSpace(s, i, FALSE) > Len(s) THEN <<>>
    ELSE <<SubSeq(s, FindSpace(s, i, FALSE), FindSpace(s, FindSpace(s, i, FALSE), TRUE) - 1)>>
         \o SplitFrom(s, FindSpace(s, FindSpace(s, i, FALSE), TRUE))

split(s) == SplitFrom(s, 1)

\* str.strip()
strip(s) ==
    IF FindSpace(s, 1, FALSE) > Len(s) THEN <<>>
    ELSE SubSeq(s, FindSpace(s, 1, FALSE),
                CHOOSE j \in 1..Len(s) : ~IsSpace(s[j]) /\ \A k \in (j + 1)..Len(s) : IsSpace(s[k]))

\* int(s) for a str s: None stands for the ValueError
IntOfDigits(body, negative) ==
    IF /\ Len(body) > 0
       /\ \A i \in 1..Len(body) : IsDigit(body[i]) \/ body[i] = "_"
       /\ IsDigit(body[1]) /\ IsDigit(body[Len(body)])
       /\ \A i \in 1..(Len(body) - 1) : ~(body[i] = "_" /\ body[i + 1] = "_")
    THEN PyInt((IF negative THEN -1 ELSE 1) * ParseNat(SelectSeq(body, IsDigit)))
    ELSE None

IntOfStripped(s) ==
    IF Len(s) > 0 /\ s[1] \in {"+", "-"} THEN IntOfDigits(Tail(s), s[1] = "-")
    ELSE IntOfDigits(s, FALSE)

int(s) == IntOfStripped(strip(s))

\* _compare_input
compare_input(inp, compare_to, ignore_case) ==
    IF ignore_case THEN lower(inp) = lower(compare_to) ELSE inp = compare_to

\* _check_special_input: the first configured string that matches, or None
check_special_input(inp, strs, ignore_case) ==
    IF \E k \in 1..Len(strs) : compare_input(inp, strs[k], ignore_case)
    THEN Str(strs[CHOOSE k \in 1..Len(strs) :
                    /\ compare_input(inp, strs[k], ignore_case)
                    /\ \A j \in 1..(k - 1) : ~compare_input(inp, strs[j], ignore_case)])
    ELSE None

\* _check_command_input: the part of the input before the first ' '
check_command_input(inp, commands, ignore_case) ==
    check_special_input(IF Contains(inp, " ")
                        THEN SubSeq(inp, 1, (CHOOSE i \in 1..Len(inp) :
                                                /\ inp[i] = " "
                                                /\ \A j \in 1..(i - 1) : inp[j] # " ") - 1)
                        ELSE inp,
                        commands, ignore_case)

\* _find_option_index: the 0-based index of the first option that matches
find_option_index(inp, options, ignore_case) ==
    IF \E k \in 1..Len(options) : compare_input(inp, options[k], ignore_case)
    THEN PyInt((CHOOSE k \in 1..Len(options) :
                    /\ compare_input(inp, options[k], ignore_case)
                    /\ \A j \in 1..(k - 1) : ~compare_input(inp, options[j], ignore_case)) - 1)
    ELSE None

\* a range test that forgets the upper bound
input_int_in_range_no_upper(inp_int, min, max) == min = None \/ inp_int >= min.n

\* _input_int_in_range
input_int_in_range(inp_int, min, max) ==
    IF min = None /\ max = None THEN TRUE
    ELSE IF min = None THEN inp_int <= max.n
    ELSE IF max = None THEN inp_int >= min.n
    ELSE min.n <= inp_int /\ inp_int <= max.n

\* CommandInputException(command, whole_input)
CommandInputException(command, whole_input) ==
    [type |-> "CommandInputException",
     command |-> command,
     whole_input |-> whole_input,
     input_after_command |-> IF Len(whole_input) > Len(command)
                             THEN Slice(whole_input, Len(command) + 1, Len(whole_input))
                             ELSE <<>>,
     args |-> split(whole_input)]

(***************************************************************************)
(* Interactive prompts: what a call writes to the terminal                 *)
(***************************************************************************)
\* the entries of log: a line requested with the prompt shown, a string
\* written to the terminal by a function of the module, a callback called
EvInput(prompt) == [ev |-> "input", by |-> "input", str |-> prompt]
EvPrint(by, str) == [ev |-> "print", by |-> by, str |-> str]
EvCall(callback) == [ev |-> "call", by |-> callback, str |-> <<>>]

\* reset_all()
reset_all == EvPrint("reset_all", <<"ESC", "[">> \o PyStr(RESET_ALL.code) \o <<"m">>)

RECURSIVE RemoveMatches(_, _, _, _)
\* re.sub of 'open.+?close' by '' from position i on, for a literal open
\* and a one-character close: '.' matches no line break
RemoveMatches(s, open, close, i) ==
    IF i > Len(s) THEN <<>>
    ELSE IF /\ i + Len(open) <= Len(s)
            /\ SubSeq(s, i, i + Len(open) - 1) = open
            /\ s[i + Len(open)] # "LF"
            /\ TagEnd(s, close, i + Len(open) + 1) # 0
    THEN RemoveMatches(s, open, close, TagEnd(s, close, i + Len(open) + 1) + 1)
    ELSE <<s[i]>> \o RemoveMatches(s, open, close, i + 1)

\* unfancy
unfancy(str) == RemoveMatches(str, <<"ESC", "[">>, "m", 1)

\* remove_format_tags
remove_format_tags(format_str) ==
    unescape_tag_brackets(RemoveMatches(escape_tag_brackets(format_str, DefaultBrackets), <<"<">>, ">", 1),
                          DefaultBrackets)

\* _remove_backslash_before_brackets
remove_backslash_before_brackets(str) ==
    Replace(Replace(str, <<"\\", "<">>, <<"<">>), <<"\\", ">">>, <<">">>)

\* the lambda of _prepare_input_marking: '\\x%02x' % ord(c) for the control
\* characters in use
HexEscape(c) ==
    CASE c = "TAB" -> <<"\\", "x", "0", "9">>
      [] c = "LF"  -> <<"\\", "x", "0", "a">>
      [] c = "DC1" -> <<"\\", "x", "1", "1">>
      [] c = "DC2" -> <<"\\", "x", "1", "2">>
      [] c = "ESC" -> <<"\\", "x", "1", "b">>
      [] OTHER -> <<c>>

EscapeControls(part) == ConcatAll([k \in 1..Len(part) |-> HexEscape(part[k])])

RECURSIVE PrepareFrom(_, _, _, _, _, _)
\* the loop of _prepare_input_marking over s = input_format + '<' from the
\* 0-based index i on
PrepareFrom(s, i, result, in_tag, start, tabs) ==
    IF i >= Len(s) THEN [str |-> result, tabs |-> tabs]
    ELSE IF s[i + 1] = "TAB"
    THEN PrepareFrom(s, i + 1, result, in_tag, start, IF in_tag THEN tabs ELSE tabs + 1)
    ELSE IF s[i + 1] = "<"
    THEN PrepareFrom(s, i + 1, result \o EscapeControls(Slice(s, start, i)), TRUE, i, tabs)
    ELSE IF s[i + 1] = ">"
    THEN PrepareFrom(s, i + 1, result \o Slice(s, start, i + 1), FALSE, i + 1, tabs)
    ELSE PrepareFrom(s, i + 1, result, in_tag, start, tabs)

\* _prepare_input_marking
prepare_input_marking(input_format) == PrepareFrom(input_format \o <<"<">>, 0, <<>>, FALSE, 0, 0)

\* _move_cursor, called by _mark_input
move_cursor(direction, places) ==
    IF places > 0
    THEN <<EvPrint("_mark_input", <<"ESC", "[">> \o StrInt(places) \o <<direction>>)>>
    ELSE <<>>

AttributeError ==
    [type |-> "AttributeError", msg |-> "'NoneType' object has no attribute 'replace'",
     invalid |-> <<>>]

TypeErrorOptionReplacement ==
    [type |-> "TypeError",
     msg |-> "_option_replacement() takes 2 positional arguments but 3 were given",
     invalid |-> <<>>]

\* what print writes for a compiled string f and the given end
Printed(f, end) == [err |-> f.err, out |-> IF f.err = NoError THEN f.out \o end ELSE <<>>]

\* fancyprintf(format_str, start_reset_all = ..., end = ...) with the default
\* brackets and end_reset_all: the string written, or the error raised
fancyprintf(format_str, start_reset_all, end) ==
    IF format_str = None THEN [err |-> AttributeError, out |-> <<>>]
    ELSE Printed(fancyformat(format_str.str, DefaultBrackets, start_reset_all, TRUE), end)

RECURSIVE ApplyExtras(_, _)
\* the loop of _mark_input over marking_extras
ApplyExtras(inp, marking_extras) ==
    IF Len(marking_extras) = 0 THEN inp
    ELSE ApplyExtras(IF marking_extras[1] = "LOWER_CASE" THEN lower(inp) ELSE upper(inp),
                     Tail(marking_extras))

\* the last two statements of _mark_input
MarkPrinted(moves, printed, tabs) ==
    IF printed.err # NoError THEN [err |-> printed.err, events |-> moves]
    ELSE [err |-> NoError,
          events |-> moves \o <<EvPrint("_mark_input", printed.out),
                                EvPrint("_mark_input", [k \in 1..(4 * tabs) |-> " "] \o <<"LF">>)>>]

MarkPrepared(format_tag, prepared, prompt_len) ==
    MarkPrinted(move_cursor("A", 1) \o move_cursor("C", prompt_len),
                fancyprintf(Str(format_tag \o prepared.str), TRUE, <<>>),
                prepared.tabs)

\* _mark_input: what it writes, and the error it raises if it does
mark_input(format_tag, inp, prompt_len, marking_extras) ==
    IF format_tag = None THEN [err |-> NoError, events |-> <<>>]
    ELSE MarkPrepared(format_tag.str, prepare_input_marking(ApplyExtras(inp, marking_extras)),
                      prompt_len)

(***************************************************************************)
(* Interactive prompts: the five functions                                 *)
(*                                                                         *)
(* A call is modelled from the point where its loop asks for a line: opts  *)
(* holds the arguments of the call, and one step reads one line and does   *)
(* with it what the body of the loop does.  What the step decided is kept  *)
(* as a plan: the outcome, the callbacks and tests that ran, the tag and   *)
(* the text handed to _mark_input, the message printed afterwards, the     *)
(* callbacks called afterwards and the value returned or raised.           *)
(***************************************************************************)
PyBool(b) == [kind |-> "bool", b |-> b]

\* repr(s) of a str without quotes, backslashes and control characters
repr(s) == <<"'">> \o s \o <<"'">>

\* the validators handed in as validate_func by the callers modelled here:
\* the error message for the value, or None
validate_func(name, value) ==
    CASE name = "no_brackets" ->
            IF Contains(value.str, "<") \/ Contains(value.str, ">")
            THEN Str(<<"<", "r", ">", "n", "o", " ", "b", "r", "a", "c", "k", "e", "t", "s">>) ELSE None
      [] name = "odd" -> IF value.n % 2 = 0 THEN Str(<<"<", "r", ">", "o", "d", "d", " ", "o", "n", "l", "y">>) ELSE None
      [] name = "odd_quiet" -> IF value.n % 2 = 0 THEN Str(<<>>) ELSE None

ValidateCalls(c) == IF c.validate_func = "none" THEN <<>> ELSE <<EvCall("validate_func")>>

\* str.replace(old, new, 1)
RECURSIVE ReplaceFirst(_, _, _)
ReplaceFirst(str, old, new) ==
    IF Len(str) < Len(old) THEN str
    ELSE IF SubSeq(str, 1, Len(old)) = old
    THEN new \o SubSeq(str, Len(old) + 1, Len(str))
    ELSE <<str[1]>> \o ReplaceFirst(Tail(str), old, new)

\* the prompt shown and the number of places the cursor is moved right
Prompt(c) ==
    fancyformat(c.prompt_format \o ResetAllTag \o c.input_format_tag, DefaultBrackets, FALSE, FALSE).out

PromptLen(c) ==
    IF c.fn = "fancyinput_options"
    THEN Len(remove_format_tags(remove_backslash_before_brackets(c.prompt_format)))
    ELSE Len(unfancy(Prompt(c)))

BasePlan ==
    [outcome |-> "valid", tests |-> <<>>, tag |-> None, marked |-> <<>>, extras |-> <<>>,
     value |-> None, prints |-> FALSE, msg |-> None, calls |-> <<>>, raises |-> NoError]

ValidPlan(tests, tag, marked, extras, value) ==
    [BasePlan EXCEPT !.tests = tests, !.tag = tag, !.marked = marked, !.extras = extras,
                     !.value = value]

InvalidPlan(tests, tag, inp, msg) ==
    [BasePlan EXCEPT !.outcome = "invalid", !.tests = tests, !.tag = tag, !.marked = inp,
                     !.prints = TRUE, !.msg = msg]

\* the branch taken when _check_command_input found a command
CommandPlan(c, inp, tests, input_command) ==
    [BasePlan EXCEPT !.outcome = "command", !.tests = tests,
                     !.tag = c.command_marking_format_tag, !.marked = input_command.str,
                     !.value = CommandInputException(input_command.str, inp)]

\* the branch taken when _check_special_input found an exit code
ExitPlan(c, tests, input_exit_code) ==
    [BasePlan EXCEPT !.outcome = "exit", !.tests = tests,
                     !.tag = c.exit_code_marking_format_tag, !.marked = input_exit_code.str,
                     !.prints = (c.fn = "fancyinput_options" /\ c.msg_on_exit # None),
                     !.msg = IF c.fn = "fancyinput_options" THEN c.msg_on_exit ELSE None,
                     !.calls = IF c.fn # "fancyinput_options" /\ c.call_before_exit
                               THEN <<EvCall("call_before_exit")>> ELSE <<>>]

SpecialPlan(c, inp, tests, input_command, input_exit_code, otherwise) ==
    IF input_command # None THEN CommandPlan(c, inp, tests, input_command)
    ELSE IF input_exit_code # None THEN ExitPlan(c, tests, input_exit_code)
    ELSE otherwise

\* the command check and the exit-code check that all five functions share
CheckSpecial(c, inp, tests, otherwise) ==
    SpecialPlan(c, inp, tests,
                check_command_input(inp, c.commands, c.special_inputs_ignore_case),
                check_special_input(inp, c.exit_codes, c.special_inputs_ignore_case),
                otherwise)

\* fancyinput: the end of the loop body, for the result of the validator
TextAcceptance(c, inp, error_msg_format) ==
    IF error_msg_format = None
    THEN ValidPlan(ValidateCalls(c), c.valid_input_marking_format_tag, inp, c.marking_extras, Str(inp))
    ELSE InvalidPlan(ValidateCalls(c), c.invalid_input_marking_format_tag, inp, error_msg_format)

fancyinput_plan(c, inp) ==
    CheckSpecial(c, inp, <<>>,
                 TextAcceptance(c, inp, IF c.validate_func = "none" THEN None
                                        ELSE validate_func(c.validate_func, Str(inp))))

\* fancyinput_yn: the default of invalid_input_msg_format
YnInvalidMsg(c) ==
    IF c.invalid_input_msg_format # None THEN c.invalid_input_msg_format
    ELSE Str(<<"<", "i", ",", "r", ">", "I", "n", "v", "a", "l", "i", "d",
                  " ", "i", "n", "p", "u", "t", ".", " ", "E", "n", "t", "e",
                  "r", " ", "'">> \o c.y \o <<"'", " ", "o", "r", " ", "'">> \o c.n \o <<"'", ".">>)

fancyinput_yn_plan(c, inp) ==
    IF compare_input(inp, c.y, c.ignore_case)
    THEN ValidPlan(<<EvCall("_compare_input")>>, c.y_marking_format_tag, c.y, <<>>, PyBool(TRUE))
    ELSE IF compare_input(inp, c.n, c.ignore_case)
    THEN ValidPlan(<<EvCall("_compare_input"), EvCall("_compare_input")>>,
                   c.n_marking_format_tag, c.n, <<>>, PyBool(FALSE))
    ELSE CheckSpecial(c, inp, <<EvCall("_compare_input"), EvCall("_compare_input")>>,
                      InvalidPlan(<<EvCall("_compare_input"), EvCall("_compare_input")>>,
                                  c.invalid_input_marking_format_tag, inp, YnInvalidMsg(c)))

\* fancyinput_int: the two messages as they stand when the loop starts
NotAnIntMsg(c) ==
    IF c.error_msg_not_an_int # None THEN c.error_msg_not_an_int
    ELSE Str(<<"<", "i", "r", ">", "I", "n", "p", "u", "t", " ", "m", "u", "s",
               "t", " ", "b", "e", " ", "a", "n", " ", "i", "n", "t", "e", "g",
               "e", "r", ".", "<", "!", "a", ">">>)

OutOfRangeMsg(c) ==
    IF c.min = None \/ c.max = None THEN c.error_msg_int_out_of_range
    ELSE IF c.error_msg_int_out_of_range = None
    THEN Str(<<"<", "i", "r", ">", "I", "n", "p", "u", "t", " ", "i", "n", "t",
               "e", "g", "e", "r", " ", "o", "u", "t", " ", "o", "f", " ", "r",
               "a", "n", "g", "e", " ", "(">>
             \o StrInt(c.min.n) \o <<"NDASH">> \o StrInt(c.max.n) \o <<")", ".", "<", "!", "a", ">">>)
    ELSE Str(Replace(ReplaceFirst(ReplaceFirst(Replace(c.error_msg_int_out_of_range.str,
                                                       <<"\\", "*">>, <<BracketsRepl_OPEN>>),
                                               <<"*">>, StrInt(c.min.n)),
                                  <<"*">>, StrInt(c.max.n)),
                     <<BracketsRepl_OPEN>>, <<"*">>))

\* fancyinput_int: the end of the loop body, for the result of int(inp)
IntAcceptance(c, inp, inp_int) ==
    IF inp_int = None
    THEN InvalidPlan(<<EvCall("int")>>, c.invalid_input_marking_format_tag, inp, NotAnIntMsg(c))
    ELSE IF ~input_int_in_range(inp_int.n, c.min, c.max)
    THEN InvalidPlan(<<EvCall("int"), EvCall("_input_int_in_range")>>,
                     c.invalid_input_marking_format_tag, inp, OutOfRangeMsg(c))
    ELSE IF c.validate_func # "none" /\ Truthy(validate_func(c.validate_func, inp_int))
    THEN InvalidPlan(<<EvCall("int"), EvCall("_input_int_in_range"), EvCall("validate_func")>>,
                     c.invalid_input_marking_format_tag, inp, validate_func(c.validate_func, inp_int))
    ELSE ValidPlan(<<EvCall("int"), EvCall("_input_int_in_range")>> \o ValidateCalls(c),
                   c.valid_input_marking_format_tag, inp, <<>>, inp_int)

fancyinput_int_plan(c, inp) == CheckSpecial(c, inp, <<>>, IntAcceptance(c, inp, int(inp)))

\* ', '.join(map(repr, strs))
JoinReprs(strs) == Join(<<",", " ">>, [k \in 1..Len(strs) |-> repr(strs[k])])

\* _fancyinput_dict_options_get_option: the 0-based index of the first
\* item of the dict whose key matches, or None
get_option(inp, option_dict, ignore_case) ==
    find_option_index(inp, [k \in 1..Len(option_dict) |-> option_dict[k][1]], ignore_case)

\* fancyinput_dict_options: the message printed for an unmatched input
UnmatchedMsg(c, inp) ==
    Str(Replace(Replace(Replace(
            IF c.unmatched_input_msg_format # None THEN c.unmatched_input_msg_format.str
            ELSE <<"<", "i", ",", "r", ">", "I", "n", "v", "a", "l", "i", "d",
                   " ", "i", "n", "p", "u", "t", ".", " ", "C", "h", "o", "o",
                   "s", "e", " ", "o", "n", "e", " ", "o", "f", " ", "t", "h",
                   "e", "s", "e", " ", "o", "p", "t", "i", "o", "n", "s", ":",
                   " ">>
                 \o JoinReprs([k \in 1..Len(c.option_dict) |-> c.option_dict[k][1]])
                 \o <<".", "<", "!", "a", ">">>,
            <<"\\", "*">>, <<"DC1">>), <<"*">>, inp), <<"DC1">>, <<"*">>))

\* the marking tag of the option with the given 0-based index
OptionMarkingTag(option_marking_format_tags, option_index) ==
    IF option_marking_format_tags = None THEN None
    ELSE IF option_marking_format_tags.kind = "str" THEN option_marking_format_tags
    ELSE Str(option_marking_format_tags.seq[option_index + 1])

\* fancyinput_dict_options: the end of the loop body for a matched option
DictMatched(c, inp, option_key, option_value, option_index) ==
    IF c.validate_func # "none" /\ Truthy(validate_func(c.validate_func, option_value))
    THEN InvalidPlan(<<EvCall("_fancyinput_dict_options_get_option"), EvCall("validate_func")>>,
                     c.invalid_option_marking_format_tag, inp,
                     validate_func(c.validate_func, option_value))
    ELSE ValidPlan(<<EvCall("_fancyinput_dict_options_get_option")>> \o ValidateCalls(c),
                   OptionMarkingTag(c.option_marking_format_tags, option_index),
                   option_key, <<>>, option_value)

DictAcceptance(c, inp, option_index) ==
    IF option_index = None
    THEN InvalidPlan(<<EvCall("_fancyinput_dict_options_get_option")>>,
                     c.unmatched_input_marking_format_tag, inp, UnmatchedMsg(c, inp))
    ELSE DictMatched(c, inp, c.option_dict[option_index.n + 1][1],
                     c.option_dict[option_index.n + 1][2], option_index.n)

fancyinput_dict_options_plan(c, inp) ==
    CheckSpecial(c, inp, <<>>, DictAcceptance(c, inp, get_option(inp, c.option_dict, c.ignore_case)))

\* fancyinput_options: options, return_options and error_msg_format as they
\* stand when the loop starts
Options(c) == [k \in 1..Len(c.option_formats) |-> remove_format_tags(c.option_formats[k])]

ReturnOptions(c) ==
    IF c.return_options = None THEN [k \in 1..Len(c.option_formats) |-> Str(Options(c)[k])]
    ELSE c.return_options.seq

OptionsErrorMsg(c) ==
    IF c.error_msg_format # None THEN c.error_msg_format
    ELSE Str(<<"<", "r", ">", "I", "n", "v", "a", "l", "i", "d", " ", "i", "n",
               "p", "u", "t", ".", " ", "C", "h", "o", "o", "s", "e", " ", "o",
               "n", "e", " ", "o", "f", " ", "t", "h", "e", "s", "e", " ", "o",
               "p", "t", "i", "o", "n", "s", ":", " ">>
             \o JoinReprs(Options(c)) \o <<".", "<", "!", "a", ">">>)

\* fancyinput_options: the end of the loop body; _mark_option calls
\* _option_replacement with one argument too many
OptionsAcceptance(c, inp, option_index) ==
    IF option_index = None
    THEN InvalidPlan(<<EvCall("_find_option_index")>>, c.invalid_input_marking_format_tag,
                     inp, OptionsErrorMsg(c))
    ELSE [BasePlan EXCEPT !.tests = <<EvCall("_find_option_index")>>,
                          !.value = ReturnOptions(c)[option_index.n + 1],
                          !.raises = TypeErrorOptionReplacement]

fancyinput_options_plan(c, inp) ==
    CheckSpecial(c, inp, <<>>,
                 OptionsAcceptance(c, inp, find_option_index(inp, Options(c), c.ignore_case)))

\* a repeat_on_empty that the configured exit codes and options never switch off
RepeatOnEmptyAsGiven(c) == c.repeat_on_empty

\* repeat_on_empty as it stands when the loop starts
RepeatOnEmpty(c) ==
    /\ c.repeat_on_empty
    /\ ~Contains(c.exit_codes, <<>>)
    /\ c.fn = "fancyinput_dict_options" => \A k \in 1..Len(c.option_dict) : c.option_dict[k][1] # <<>>
    /\ c.fn = "fancyinput_options" => ~Contains(Options(c), <<>>)

\* the value a step leaves in res: how the line was classified, the value
\* returned or the exception raised as the command signal, and the error
\* that ended the call, if one did
Result(outcome, value, err) == [outcome |-> outcome, value |-> value, err |-> err]

\* a read that shows no prompt
ReadLine_without_prompt(c) == <<EvInput(<<>>), reset_all>>

\* a read that leaves the terminal in the format of the input
ReadLine_without_reset(c) == <<EvInput(Prompt(c))>>

\* input(prompt) and reset_all(), with which every read starts
ReadLine(c) == <<EvInput(Prompt(c)), reset_all>>

PcAfter(outcome) ==
    CASE outcome = "valid" -> "returned"
      [] outcome = "invalid" -> "read"
      [] outcome = "command" -> "signal"
      [] outcome = "exit" -> "exited"

\* the loop body from _mark_input on: m is what the mark wrote or raised,
\* p what the message printed after it wrote or raised
Handled(c, plan, m, p) ==
    IF m.err # NoError
    THEN [pc |-> "raised", res |-> Result(plan.outcome, None, m.err),
          log |-> ReadLine(c) \o plan.tests \o m.events]
    ELSE IF p.err # NoError
    THEN [pc |-> "raised", res |-> Result(plan.outcome, None, p.err),
          log |-> ReadLine(c) \o plan.tests \o m.events]
    ELSE [pc |-> PcAfter(plan.outcome), res |-> Result(plan.outcome, plan.value, NoError),
          log |-> ReadLine(c) \o plan.tests \o m.events
                  \o (IF plan.prints THEN <<EvPrint("fancyprintf", p.out)>> ELSE <<>>)
                  \o plan.calls
                  \o (IF plan.outcome = "exit" THEN <<EvCall("sys.exit")>> ELSE <<>>)]

Run(c, plan) ==
    Handled(c, plan,
            IF plan.raises # NoError THEN [err |-> plan.raises, events |-> <<>>]
            ELSE mark_input(plan.tag, plan.marked, PromptLen(c), plan.extras),
            IF plan.prints THEN fancyprintf(plan.msg, FALSE, <<"LF">>)
            ELSE [err |-> NoError, out |-> <<>>])

\* one pass of the loop for the line inp: an empty line is read again
\* while repeat_on_empty holds
LoopBody(c, inp, plan) ==
    IF RepeatOnEmpty(c) /\ Len(inp) = 0
    THEN [pc |-> "read", res |-> Result("empty", None, NoError), log |-> ReadLine(c)]
    ELSE Run(c, plan)

(***************************************************************************)
(* Specification of the prompts: a caller has called one of the five       *)
(* functions, and the user types lines until the call is over.             *)
(***************************************************************************)
\* the lines a user types
Lines == { <<>>, <<"Y">>,
           <<"y">>,
           <<"n">>,
           <<"q">>,
           <<"h">>,
           <<"H", " ", " ", "x", "TAB", "y">>,
           <<"h", "TAB", "x">>,
           <<"<">>,
           <<"5">>,
           <<"9">>,
           <<"a", "TAB", "b">>,
           <<"-", "3">> }

Tag(configured, format_tag) == IF configured THEN Str(format_tag) ELSE None

\* commands, exit codes and special_inputs_ignore_case
Specials ==
    { [commands |-> <<>>, exit_codes |-> <<>>, ignore_case |-> FALSE],
      [commands |-> <<<<"h">>, <<"Y">>>>, exit_codes |-> <<<<"q">>, <<"n">>>>, ignore_case |-> FALSE],
      [commands |-> <<<<"h">>>>, exit_codes |-> <<<<"Q">>, <<>>>>, ignore_case |-> TRUE] }

\* the arguments all five functions take
Common(fn, special, tags) ==
    [fn |-> fn,
     prompt_format |-> <<"P", ":", " ">>,
     input_format_tag |-> <<"<", "c", ">">>,
     commands |-> special.commands,
     exit_codes |-> special.exit_codes,
     special_inputs_ignore_case |-> special.ignore_case,
     invalid_input_marking_format_tag |-> Tag(tags, <<"<", "r", ">">>),
     command_marking_format_tag |-> Tag(tags, <<"<", "m", ">">>),
     exit_code_marking_format_tag |-> Tag(tags, <<"<", "y", ">">>)]

TextConfigs ==
    { Common("fancyinput", special, tags) @@
      [repeat_on_empty |-> repeat, call_before_exit |-> cleanup, validate_func |-> validate,
       valid_input_marking_format_tag |-> Tag(tags, <<"<", "g", ">">>),
       marking_extras |-> extras] :
      special \in Specials, tags \in BOOLEAN, repeat \in BOOLEAN, cleanup \in BOOLEAN,
      validate \in {"none", "no_brackets"}, extras \in {<<>>, <<"LOWER_CASE">>} }

YnConfigs ==
    { Common("fancyinput_yn", special, tags) @@
      [repeat_on_empty |-> repeat, call_before_exit |-> cleanup,
       y |-> <<"Y">>, n |-> <<"n">>, ignore_case |-> ignore_case,
       invalid_input_msg_format |-> None,
       y_marking_format_tag |-> Tag(tags, <<"<", "g", ">">>),
       n_marking_format_tag |-> Tag(tags, <<"<", "b", ">">>)] :
      special \in Specials, tags \in BOOLEAN, repeat \in BOOLEAN, cleanup \in BOOLEAN,
      ignore_case \in BOOLEAN }

IntConfigs ==
    { Common("fancyinput_int", special, tags) @@
      [repeat_on_empty |-> TRUE, call_before_exit |-> TRUE, validate_func |-> validate,
       min |-> range[1], max |-> range[2],
       error_msg_not_an_int |-> None, error_msg_int_out_of_range |-> msg,
       valid_input_marking_format_tag |-> Tag(tags, <<"<", "g", ">">>)] :
      special \in Specials, tags \in BOOLEAN, validate \in {"none", "odd", "odd_quiet"},
      range \in {<<None, None>>, <<PyInt(1), PyInt(5)>>, <<None, PyInt(5)>>, <<PyInt(1), None>>},
      msg \in {None, Str(<<"<", "r", ">", "*", " ", "t", "o", " ", "*">>)} }

DictConfigs ==
    { Common("fancyinput_dict_options", special, tags # "none") @@
      [repeat_on_empty |-> TRUE, call_before_exit |-> TRUE, validate_func |-> validate,
       option_dict |-> << <<<<"y">>, PyInt(1)>>, <<<<"Y">>, PyInt(2)>>, <<<<"5">>, PyInt(3)>> >>
                       \o (IF empty_key THEN << <<<<>>, PyInt(5)>> >> ELSE <<>>),
       ignore_case |-> ignore_case,
       unmatched_input_msg_format |-> None,
       option_marking_format_tags |->
           CASE tags = "none" -> None
             [] tags = "one" -> Str(<<"<", "g", ">">>)
             [] tags = "each" -> PyTuple(<< <<"<", "g", ">">>, <<"<", "b", ">">>, <<"<", "c", ">">>,
                                            <<"<", "m", ">">> >>),
       unmatched_input_marking_format_tag |-> Tag(tags # "none", <<"<", "r", ">">>),
       invalid_option_marking_format_tag |-> Tag(tags # "none", <<"<", "R", ">">>)] :
      special \in Specials, tags \in {"none", "one", "each"}, validate \in {"none", "odd"},
      ignore_case \in BOOLEAN, empty_key \in BOOLEAN }

OptionsConfigs ==
    { Common("fancyinput_options", special, tags) @@
      [repeat_on_empty |-> TRUE,
       option_formats |-> << <<"<", "g", ">", "y">>, <<"n">> >>
                          \o (IF empty_option THEN << <<"<", "b", ">">> >> ELSE <<>>),
       return_options |-> return_options,
       ignore_case |-> ignore_case,
       error_msg_format |-> None,
       msg_on_exit |-> msg_on_exit] :
      special \in Specials, tags \in BOOLEAN, ignore_case \in BOOLEAN,
      return_options \in {None, PyTuple(<<PyInt(1), PyInt(2), PyInt(3)>>)},
      empty_option \in BOOLEAN,
      msg_on_exit \in {None, Str(<<"<", "b", ">", "b", "y", "e">>)} }

Init ==
    /\ opts \in TextConfigs \cup YnConfigs \cup IntConfigs \cup DictConfigs \cup OptionsConfigs
    /\ text = <<>>
    /\ pc = "read"
    /\ res = Result("none", None, NoError)
    /\ log = <<>>

\* the caller's position, the line and the result after one pass of the loop
Pass(line, after) ==
    /\ text' = line
    /\ pc' = after.pc
    /\ res' = after.res
    /\ log' = after.log
    /\ UNCHANGED opts

fancyinput ==
    /\ pc = "read" /\ opts.fn = "fancyinput"
    /\ \E line \in Lines : Pass(line, LoopBody(opts, line, fancyinput_plan(opts, line)))

fancyinput_yn ==
    /\ pc = "read" /\ opts.fn = "fancyinput_yn"
    /\ \E line \in Lines : Pass(line, LoopBody(opts, line, fancyinput_yn_plan(opts, line)))

fancyinput_int ==
    /\ pc = "read" /\ opts.fn = "fancyinput_int"
    /\ \E line \in Lines : Pass(line, LoopBody(opts, line, fancyinput_int_plan(opts, line)))

fancyinput_dict_options ==
    /\ pc = "read" /\ opts.fn = "fancyinput_dict_options"
    /\ \E line \in Lines : Pass(line, LoopBody(opts, line, fancyinput_dict_options_plan(opts, line)))

fancyinput_options ==
    /\ pc = "read" /\ opts.fn = "fancyinput_options"
    /\ \E line \in Lines : Pass(line, LoopBody(opts, line, fancyinput_options_plan(opts, line)))

Next ==
    \/ fancyinput
    \/ fancyinput_yn
    \/ fancyinput_int
    \/ fancyinput_dict_options
    \/ fancyinput_options

Spec == Init /\ [][Next]_vars

(***************************************************************************)
(* What the claims about the prompts speak of, said of the line in text,   *)
(* the arguments in opts and the terminal log of the last pass.            *)
(***************************************************************************)
\* a line was read and went through the classification
LineHandled == res.outcome \notin {"none", "empty"}

\* the part of the line before its first space
FirstToken(line) ==
    IF \E i \in 1..Len(line) : line[i] = " "
    THEN SubSeq(line, 1, (CHOOSE i \in 1..Len(line) :
                              line[i] = " " /\ \A j \in 1..(i - 1) : line[j] # " ") - 1)
    ELSE line

SameSpecial(a, b) ==
    IF opts.special_inputs_ignore_case THEN lower(a) = lower(b) ELSE a = b

IsCommandLine == \E k \in 1..Len(opts.commands) : SameSpecial(FirstToken(text), opts.commands[k])

IsExitLine == \E k \in 1..Len(opts.exit_codes) : SameSpecial(text, opts.exit_codes[k])

\* the calls that test whether a line is accepted
AcceptanceTests ==
    {"_compare_input", "int", "_input_int_in_range", "validate_func", "_find_option_index",
     "_fancyinput_dict_options_get_option"}

NoAcceptanceTestRan == \A i \in DOMAIN log : log[i].by \notin AcceptanceTests

IsMarkEvent(e) == e.by = "_mark_input"

\* what _mark_input wrote during the last pass
MarkEvents == SelectSeq(log, IsMarkEvent)

CountBy(by) == Cardinality({i \in DOMAIN log : log[i].by = by})

TabsIn(line) == Cardinality({i \in DOMAIN line : line[i] = "TAB"})

CursorUp == <<"ESC", "[", "1", "A">>

CursorRight(places) == <<"ESC", "[">> \o StrInt(places) \o <<"C">>

\* the number of characters of the prompt that the terminal shows
VisibleWidth == Len(unfancy(Prompt(opts)))

\* one mark: cursor up, cursor right, the marked text, the cover-spaces
OneMark(tabs) ==
    /\ Len(MarkEvents) = 4
    /\ MarkEvents[1].str = CursorUp
    /\ MarkEvents[2].str = CursorRight(VisibleWidth)
    /\ MarkEvents[4].str = [k \in 1..(4 * tabs) |-> " "] \o <<"LF">>

\* the index in log of the only event written by the given caller
IndexOf(by) == CHOOSE i \in DOMAIN log : log[i].by = by

\* C4: in every prompt variant a line whose first token matches a
\* configured command is classified as a command, and otherwise a line
\* equal to a configured exit code is classified as exit, in both cases
\* before any acceptance test has run.
C4_command_then_exit_before_acceptance ==
    LineHandled =>
        /\ IsCommandLine => (res.outcome = "command" /\ NoAcceptanceTestRan)
        /\ (~IsCommandLine /\ IsExitLine) => (res.outcome = "exit" /\ NoAcceptanceTestRan)

\* the order of C4 as the four variants other than yes/no keep it
C4_order_outside_yn ==
    (LineHandled /\ opts.fn # "fancyinput_yn") =>
        /\ IsCommandLine => (res.outcome = "command" /\ NoAcceptanceTestRan)
        /\ (~IsCommandLine /\ IsExitLine) => (res.outcome = "exit" /\ NoAcceptanceTestRan)

\* the yes literal is also a configured command, and the line is returned
\* as yes
C4_yes_literal_wins_over_command ==
    /\ opts.fn = "fancyinput_yn"
    /\ text = <<"Y">>
    /\ IsCommandLine
    /\ pc = "returned"
    /\ res.value = PyBool(TRUE)

\* C5: a line that is neither a command nor an exit code and that the
\* acceptance test rejects is marked invalid, its error message is
\* printed and the prompt reads again; the call does not end with a
\* raised error.
C5_rejected_line_is_reread ==
    res.outcome = "invalid" =>
        /\ pc = "read"
        /\ CountBy("fancyprintf") = 1
        /\ opts.invalid_input_marking_format_tag # None => Len(MarkEvents) = 4

\* the line '<' is rejected by the validator and the call ends with the
\* ValueError of the bracket validation, raised while marking
C5_rejected_bracket_raises ==
    /\ opts.fn = "fancyinput"
    /\ text = <<"<">>
    /\ res.outcome = "invalid"
    /\ pc = "raised"
    /\ res.err.type = "ValueError"
    /\ CountBy("fancyprintf") = 0

\* C6: on an exit-code match the exit mark is performed, then the
\* configured cleanup callback is called exactly once, then the process
\* is terminated; the call does not return, and no validator or
\* acceptance test runs for the line.
C6_exit_marks_cleans_up_terminates ==
    (LineHandled /\ ~IsCommandLine /\ IsExitLine) =>
        /\ pc = "exited"
        /\ NoAcceptanceTestRan
        /\ opts.exit_code_marking_format_tag # None => OneMark(0)
        /\ (opts.fn # "fancyinput_options" /\ opts.call_before_exit) =>
               /\ CountBy("call_before_exit") = 1
               /\ \A i \in DOMAIN log : IsMarkEvent(log[i]) => i < IndexOf("call_before_exit")
               /\ IndexOf("call_before_exit") < IndexOf("sys.exit")
        /\ log[Len(log)] = EvCall("sys.exit")

\* what C6 says, wherever the line was classified as exit
C6_exit_sequence_when_classified ==
    res.outcome = "exit" =>
        /\ pc = "exited"
        /\ opts.exit_code_marking_format_tag # None => OneMark(0)
        /\ (opts.fn # "fancyinput_options" /\ opts.call_before_exit) =>
               /\ CountBy("call_before_exit") = 1
               /\ \A i \in DOMAIN log : IsMarkEvent(log[i]) => i < IndexOf("call_before_exit")
               /\ IndexOf("call_before_exit") < IndexOf("sys.exit")
        /\ log[Len(log)] = EvCall("sys.exit")

\* the no literal is also a configured exit code, and the call returns
C6_no_literal_returns_on_exit_code ==
    /\ opts.fn = "fancyinput_yn"
    /\ text = <<"n">>
    /\ IsExitLine
    /\ pc = "returned"
    /\ res.value = PyBool(FALSE)

\* C7: on a command match the command mark is performed and the call is
\* left by the signal, which carries the matched command and, as its
\* arguments, the whitespace-split tokens of the line after the command
\* token.
C7_signal_carries_remaining_tokens ==
    (LineHandled /\ IsCommandLine) =>
        /\ pc = "signal"
        /\ opts.command_marking_format_tag # None => OneMark(0)
        /\ SameSpecial(res.value.command, FirstToken(text))
        /\ res.value.args = Tail(split(text))

\* what the signal carries: the configured command, and every token of
\* the line, the command token included
C7_signal_carries_all_tokens ==
    pc = "signal" =>
        /\ opts.command_marking_format_tag # None => OneMark(0)
        /\ \E k \in 1..Len(opts.commands) : res.value.command = opts.commands[k]
        /\ SameSpecial(res.value.command, FirstToken(text))
        /\ res.value.args = split(text)
        /\ res.value.args[1] = FirstToken(text)

\* the line 'H  x<TAB>y' matched the command 'h'
C7_command_with_arguments ==
    /\ pc = "signal"
    /\ text = <<"H", " ", " ", "x", "TAB", "y">>
    /\ res.value.command = <<"h">>
    /\ res.value.args = << <<"H">>, <<"x">>, <<"y">> >>

\* C8: every classified outcome (valid, invalid, command, exit) performs
\* exactly one mark, which writes cursor up one line, cursor right by the
\* visible width of the prompt, the marked text, and four cover-spaces
\* for each tab of the input, in this order.
C8_every_outcome_marks_once == LineHandled => OneMark(TabsIn(text))

\* a mark that was completed has the order of C8, with four cover-spaces
\* for each tab of the input outside a command
C8_completed_mark_order ==
    Len(MarkEvents) = 4 => OneMark(IF res.outcome = "command" THEN 0 ELSE TabsIn(text))

\* fancyinput_options matched an option and raised the TypeError of
\* _mark_option before anything was marked
C8_matched_option_not_marked ==
    /\ opts.fn = "fancyinput_options"
    /\ res.outcome = "valid"
    /\ pc = "raised"
    /\ res.err = TypeErrorOptionReplacement
    /\ Len(MarkEvents) = 0

\* C9: fancyinput_yn with ignore_case returns true for a line equal to
\* the yes literal up to case and false for one equal to the no literal,
\* after exactly one mark with the yes (no) marking tag; every other line
\* that is neither a command nor an exit code is marked invalid and read
\* again.
C9_yn_ignore_case ==
    (opts.fn = "fancyinput_yn" /\ opts.ignore_case /\ LineHandled) =>
        /\ lower(text) = lower(opts.y) =>
               /\ pc = "returned" /\ res.value = PyBool(TRUE)
               /\ opts.y_marking_format_tag # None =>
                      /\ OneMark(0)
                      /\ MarkEvents = mark_input(opts.y_marking_format_tag, opts.y, VisibleWidth, <<>>).events
        /\ lower(text) = lower(opts.n) =>
               /\ pc = "returned" /\ res.value = PyBool(FALSE)
               /\ opts.n_marking_format_tag # None =>
                      /\ OneMark(0)
                      /\ MarkEvents = mark_input(opts.n_marking_format_tag, opts.n, VisibleWidth, <<>>).events
        /\ (/\ lower(text) # lower(opts.y) /\ lower(text) # lower(opts.n)
            /\ ~IsCommandLine /\ ~IsExitLine) =>
               /\ res.outcome = "invalid" /\ pc = "read"
               /\ opts.invalid_input_marking_format_tag # None => OneMark(TabsIn(text))

\* the part of C9 about the two literals
C9_yes_and_no_returned ==
    (opts.fn = "fancyinput_yn" /\ opts.ignore_case /\ LineHandled) =>
        /\ lower(text) = lower(opts.y) =>
               /\ pc = "returned" /\ res.value = PyBool(TRUE)
               /\ opts.y_marking_format_tag # None => OneMark(0)
        /\ lower(text) = lower(opts.n) =>
               /\ pc = "returned" /\ res.value = PyBool(FALSE)
               /\ opts.n_marking_format_tag # None => OneMark(0)

\* the line '<' is neither literal, and the call ends with a ValueError
C9_other_line_raises ==
    /\ opts.fn = "fancyinput_yn"
    /\ opts.ignore_case
    /\ text = <<"<">>
    /\ ~IsCommandLine /\ ~IsExitLine
    /\ pc = "raised"
    /\ res.err.type = "ValueError"

IntOutOfRange ==
    /\ int(text) # None
    /\ \/ opts.min # None /\ int(text).n < opts.min.n
       \/ opts.max # None /\ int(text).n > opts.max.n

\* C11: when the line parses as an integer outside the configured range,
\* fancyinput_int marks it invalid, prints the out-of-range message and
\* reads again, for two-sided and one-sided ranges and with or without an
\* out-of-range message of the caller; no error is raised to the caller.
C11_out_of_range_is_reread ==
    (/\ opts.fn = "fancyinput_int" /\ LineHandled
     /\ ~IsCommandLine /\ ~IsExitLine /\ IntOutOfRange) =>
        /\ res.outcome = "invalid"
        /\ pc = "read"
        /\ CountBy("fancyprintf") = 1
        /\ opts.invalid_input_marking_format_tag # None => OneMark(TabsIn(text))

\* C11 for the calls that give both bounds or a message of their own
C11_reread_with_message ==
    (/\ opts.fn = "fancyinput_int" /\ LineHandled
     /\ ~IsCommandLine /\ ~IsExitLine /\ IntOutOfRange
     /\ (opts.min # None /\ opts.max # None) \/ opts.error_msg_int_out_of_range # None) =>
        /\ res.outcome = "invalid"
        /\ pc = "read"
        /\ CountBy("fancyprintf") = 1
        /\ opts.invalid_input_marking_format_tag # None => OneMark(TabsIn(text))

\* 9 is above the only bound 5, no message was given, and the call ends
\* with the AttributeError of fancyprintf(None) after the mark
C11_one_sided_range_raises ==
    /\ opts.fn = "fancyinput_int"
    /\ opts.min = None /\ opts.max = PyInt(5)
    /\ opts.error_msg_int_out_of_range = None
    /\ opts.invalid_input_marking_format_tag # None
    /\ text = <<"9">>
    /\ pc = "raised"
    /\ res.err = AttributeError
    /\ OneMark(0)
    /\ CountBy("fancyprintf") = 0

\* the configured keys of the dict-options call that equal the line, by
\* their 1-based position in the dict
MatchingKeys ==
    {k \in 1..Len(opts.option_dict) :
        IF opts.ignore_case THEN lower(opts.option_dict[k][1]) = lower(text)
        ELSE opts.option_dict[k][1] = text}

FirstMatchingKey == CHOOSE k \in MatchingKeys : \A j \in MatchingKeys : k <= j

\* the validator of the call accepts the value
ValidatorAccepts(value) ==
    opts.validate_func = "none" \/ validate_func(opts.validate_func, value) = None

\* C12: fancyinput_dict_options returns the value of the first configured
\* key that equals the line (ignoring case when so configured), and only
\* when the validator, if any, accepted that value; an unmatched line or a
\* rejected value is marked, reported and read again, and is not returned.
C12_dict_first_match_or_reread ==
    (/\ opts.fn = "fancyinput_dict_options" /\ LineHandled
     /\ ~IsCommandLine /\ ~IsExitLine) =>
        IF MatchingKeys # {} /\ ValidatorAccepts(opts.option_dict[FirstMatchingKey][2])
        THEN /\ pc = "returned"
             /\ res.value = opts.option_dict[FirstMatchingKey][2]
        ELSE /\ res.outcome = "invalid"
             /\ pc = "read"
             /\ CountBy("fancyprintf") = 1
             /\ (IF MatchingKeys = {} THEN opts.unmatched_input_marking_format_tag
                 ELSE opts.invalid_option_marking_format_tag) # None => OneMark(TabsIn(text))

\* the part of C12 about what is returned
C12_returned_value_matched_and_accepted ==
    (opts.fn = "fancyinput_dict_options" /\ LineHandled) =>
        /\ pc = "returned" =>
               /\ MatchingKeys # {}
               /\ res.value = opts.option_dict[FirstMatchingKey][2]
               /\ ValidatorAccepts(res.value)
        /\ (/\ ~IsCommandLine /\ ~IsExitLine
            /\ MatchingKeys # {} /\ ValidatorAccepts(opts.option_dict[FirstMatchingKey][2])) =>
               pc = "returned"

\* the line '<' matches no key and the call ends with a ValueError raised
\* by the mark
C12_unmatched_bracket_raises ==
    /\ opts.fn = "fancyinput_dict_options"
    /\ text = <<"<">>
    /\ MatchingKeys = {}
    /\ res.outcome = "invalid"
    /\ pc = "raised"
    /\ res.err.type = "ValueError"
    /\ CountBy("fancyprintf") = 0

\* the display strings of the list-options call whose markup-stripped
\* form equals the line, by their 1-based position
MatchingOptions ==
    {k \in 1..Len(opts.option_formats) :
        IF opts.ignore_case
        THEN lower(remove_format_tags(opts.option_formats[k])) = lower(text)
        ELSE remove_format_tags(opts.option_formats[k]) = text}

FirstMatchingOption == CHOOSE k \in MatchingOptions : \A j \in MatchingOptions : k <= j

\* C13: when the line equals (ignoring case when so configured) the
\* markup-stripped form of the i-th display string, fancyinput_options
\* marks the input in place and returns the i-th return option, or the
\* stripped display string when no return options were given.
C13_matched_option_marked_and_returned ==
    (/\ opts.fn = "fancyinput_options" /\ LineHandled
     /\ ~IsCommandLine /\ ~IsExitLine /\ MatchingOptions # {}) =>
        /\ pc = "returned"
        /\ res.value = IF opts.return_options = None
                       THEN Str(remove_format_tags(opts.option_formats[FirstMatchingOption]))
                       ELSE opts.return_options.seq[FirstMatchingOption]
        /\ OneMark(TabsIn(text))

\* what the code does for every matched option: the TypeError of the call
\* of _option_replacement, with nothing marked and nothing returned
C13_matched_option_always_raises ==
    (/\ opts.fn = "fancyinput_options" /\ LineHandled
     /\ ~IsCommandLine /\ ~IsExitLine /\ MatchingOptions # {}) =>
        /\ pc = "raised"
        /\ res.err = TypeErrorOptionReplacement
        /\ Len(MarkEvents) = 0

\* the line 'y' equals the stripped form of '<g>y', return options were
\* given, and the call ends with the TypeError
C13_first_option_raises ==
    /\ opts.fn = "fancyinput_options"
    /\ text = <<"y">>
    /\ FirstMatchingOption = 1
    /\ opts.return_options # None
    /\ pc = "raised"
    /\ res.err.type = "TypeError"

\* the empty string is a configured exit code
EmptyIsExitCode == \E k \in 1..Len(opts.exit_codes) : opts.exit_codes[k] = <<>>

\* the empty string is a key of the dict-options call, or the stripped form
\* of a display string of the list-options call
EmptyIsOption ==
    \/ /\ opts.fn = "fancyinput_dict_options"
       /\ \E k \in 1..Len(opts.option_dict) : opts.option_dict[k][1] = <<>>
    \/ /\ opts.fn = "fancyinput_options"
       /\ \E k \in 1..Len(opts.option_formats) : remove_format_tags(opts.option_formats[k]) = <<>>

\* an empty line was read
EmptyLineRead == text = <<>> /\ res.outcome # "none"

\* the prompt reads again, and all the pass did was to read the line and
\* to write the reset-all sequence
ReadAgainUnclassified ==
    /\ res.outcome = "empty"
    /\ pc = "read"
    /\ Len(log) = 2
    /\ log[1].ev = "input"
    /\ log[2] = reset_all

\* C14 (as stated): with empty-retry enabled and the empty string not a
\* configured exit code, an empty line is never classified, and the prompt
\* reads again with no mark, no message and no validator call; when the
\* empty string is a configured exit code an empty line is classified as
\* exit.
C14_empty_line_reread_unless_exit_code ==
    EmptyLineRead =>
        /\ (opts.repeat_on_empty /\ ~EmptyIsExitCode) => ReadAgainUnclassified
        /\ EmptyIsExitCode => res.outcome = "exit"

\* C14 (amended): with empty-retry enabled and the empty string neither a
\* configured exit code nor a configured option (a key of dict-options,
\* the stripped form of a display string of list-options), an empty line
\* is never classified, and the prompt reads again with no mark, no
\* message and no validator call; when the empty string is a configured
\* exit code an empty line is classified as exit, and when it is a
\* configured option the empty line is classified too.
C14_empty_line_reread_unless_configured ==
    EmptyLineRead =>
        /\ (opts.repeat_on_empty /\ ~EmptyIsExitCode /\ ~EmptyIsOption) => ReadAgainUnclassified
        /\ EmptyIsExitCode => (res.outcome = "exit" /\ pc = "exited")
        /\ (EmptyIsOption \/ ~opts.repeat_on_empty) => res.outcome \in {"valid", "invalid", "exit"}

\* an empty line was read again by a call with empty-retry
C14_witness_empty_line_read_again ==
    /\ EmptyLineRead
    /\ opts.repeat_on_empty /\ ~EmptyIsExitCode /\ ~EmptyIsOption
    /\ opts.invalid_input_marking_format_tag # None
    /\ ReadAgainUnclassified

\* the empty string is a key of the dict, and the empty line is returned
\* as that option although empty-retry was asked for
C14_empty_key_is_returned ==
    /\ opts.fn = "fancyinput_dict_options"
    /\ EmptyLineRead
    /\ opts.repeat_on_empty /\ ~EmptyIsExitCode /\ EmptyIsOption
    /\ pc = "returned"
    /\ res.value = PyInt(5)

(***************************************************************************)
(* What the claims about the tag scanner speak of, said of the tag content *)
(* in text and the FormatTag, or the error, in res.                        *)
(***************************************************************************)
\* the FormatTag call is over, with a tag or with an error
TagDone == pc = "done" /\ opts.fn = "FormatTag"

IsMarker(char) == char \in {"#", "!"}

\* the error of an invalid key, for any of the given spellings of the key
IsInvalidKeyError(err, spellings) ==
    err.type = "ValueError" /\ err.msg = "invalid format key" /\ err.invalid \in spellings

MarkerPairs == {<<"#", "#">>, <<"!", "!">>, <<"#", "!">>, <<"!", "#">>}

\* the positions at which a marker stands directly before a marker
AdjacentMarkersAt(content) ==
    {i \in 1..(Len(content) - 1) : IsMarker(content[i]) /\ IsMarker(content[i + 1])}

\* the scan of the characters before position i meets no error
ScansUpTo(content, i) == ScanFrom(ScanStart, SubSeq(content, 1, i - 1), 0).err = NoError

\* C15: the tag scanner raises the marker-adjacency error ('##', '!!',
\* '#!', '!#') if and only if two marker characters are immediately
\* adjacent in the tag content; a marker that follows a numeric literal
\* finalises the literal and the scan goes on.
C15_adjacency_error_iff_markers_adjacent ==
    TagDone =>
        /\ IsInvalidKeyError(res.err, MarkerPairs) =>
               \E i \in AdjacentMarkersAt(text) : res.err.invalid = <<text[i], text[i + 1]>>
        /\ \A i \in AdjacentMarkersAt(text) :
               ScansUpTo(text, i + 1) => res.err = invalid_key_error(<<text[i], text[i + 1]>>)

\* when the code raises the adjacency error: a marker is met while an
\* earlier marker is pending, with nothing or, after '#', only digits in
\* between
C15_adjacency_error_when_marker_pending ==
    TagDone =>
        /\ IsInvalidKeyError(res.err, MarkerPairs) =>
               \E i \in 1..Len(text) : \E j \in (i + 1)..Len(text) :
                   /\ res.err.invalid = <<text[i], text[j]>>
                   /\ \A k \in (i + 1)..(j - 1) : IsDigit(text[k])
                   /\ j > i + 1 => text[i] = "#"
        /\ \A i \in AdjacentMarkersAt(text) :
               ScansUpTo(text, i + 1) => res.err = invalid_key_error(<<text[i], text[i + 1]>>)

\* '#5#r': the second '#' follows the literal 5, and the scan fails with
\* the adjacency error '##'
C15_marker_after_background_literal_raises ==
    /\ TagDone
    /\ text = <<"#", "5", "#", "r">>
    /\ AdjacentMarkersAt(text) = {}
    /\ res.err = invalid_key_error(<<"#", "#">>)

RECURSIVE WithoutSeparators(_, _, _)
\* the content from position i on without its separators; with
\* keep_after_digit a separator that directly follows a digit stays
WithoutSeparators(content, i, keep_after_digit) ==
    IF i > Len(content) THEN <<>>
    ELSE (IF /\ IsSeparator(content[i])
             /\ ~(keep_after_digit /\ i > 1 /\ IsDigit(content[i - 1]))
          THEN <<>> ELSE <<content[i]>>)
         \o WithoutSeparators(content, i + 1, keep_after_digit)

\* the FormatTag of a tag content under the brackets of the call
TagOf(content) ==
    FormatTag(<<opts.tag_brackets[1]>> \o content \o <<opts.tag_brackets[2]>>, opts.tag_brackets)

\* two tags have the same resets, styles and colours
SameModes(a, b) ==
    /\ a.err = b.err
    /\ a.resets = b.resets
    /\ a.styles = b.styles
    /\ a.resets_of_styles = b.resets_of_styles
    /\ a.bg_color = b.bg_color
    /\ a.fg_color = b.fg_color

\* a marker directly before a separator, or at the end of the content,
\* fails as an invalid key
MarkerWithoutKeyFails ==
    /\ \A i \in 1..Len(text) :
           (IsMarker(text[i]) /\ (i = Len(text) \/ IsSeparator(text[i + 1]))) => res.err # NoError
    /\ \A i \in 1..(Len(text) - 1) :
           (IsMarker(text[i]) /\ IsSeparator(text[i + 1]) /\ ScansUpTo(text, i + 1)) =>
               res.err = invalid_key_error(<<text[i], text[i + 1]>>)
    /\ (/\ Len(text) > 0 /\ IsMarker(text[Len(text)])
        /\ ScansUpTo(text, Len(text) + 1)) =>
               res.err = invalid_key_error(DanglingMarker)

\* C16 (as stated): the scanner fails whenever a marker is directly
\* followed by a separator or is the last character of the content, and
\* every other separator is ignored: the tag has the resets, styles and
\* colours of the content without its separators.
C16_separators_ignored ==
    TagDone =>
        /\ MarkerWithoutKeyFails
        /\ res.err = NoError => SameModes(res, TagOf(WithoutSeparators(text, 1, FALSE)))

\* C16 (amended): the scanner fails whenever a marker is directly followed
\* by a separator or is the last character of the content; a separator
\* that directly follows a digit ends the numeric literal, and every other
\* separator is ignored: the tag has the resets, styles and colours of the
\* content without those separators.
C16_separators_only_end_literals ==
    TagDone =>
        /\ MarkerWithoutKeyFails
        /\ res.err = NoError => SameModes(res, TagOf(WithoutSeparators(text, 1, TRUE)))

\* two separators between a colour key and a style key are ignored
C16_witness_separators_between_keys ==
    /\ TagDone
    /\ text = <<"r", ",", " ", "f">>
    /\ res.err = NoError
    /\ res.fg_color.kind = "mode" /\ res.fg_color.mode.name = "RED"
    /\ Len(res.styles) = 1
    /\ SameModes(res, TagOf(<<"r", "f">>))

(***************************************************************************)
(* Specification of the palette literals: FormatTag is called for a tag    *)
(* with one digit run, written with or without a leading zero, after       *)
(* nothing, a background marker, a reset marker, a style key or a colour   *)
(* key and a background marker.                                            *)
(***************************************************************************)
MaxPaletteValue == 300

PalettePrefixes == { <<>>, <<"#">>, <<"!">>, <<"f", ",">>, <<"c", "#">> }

PaletteTags ==
    { prefix \o zero \o StrNat(n) :
        prefix \in PalettePrefixes, zero \in {<<>>, <<"0">>}, n \in 0..MaxPaletteValue }

InitPalette ==
    /\ text \in PaletteTags
    /\ opts = [fn |-> "FormatTag", tag_brackets |-> DefaultBrackets]
    /\ pc = "input"
    /\ res = NoResult
    /\ log = <<>>

NextPalette == ParseTag

SpecPalette == InitPalette /\ [][NextPalette]_vars

\* the digits of the tag content, and the position of the first of them
DigitRun(content) == SelectSeq(content, IsDigit)

FirstDigitAt(content) ==
    CHOOSE i \in 1..Len(content) : IsDigit(content[i]) /\ \A j \in 1..(i - 1) : ~IsDigit(content[j])

\* the character before the digit run is the given marker
RunFollows(content, marker) ==
    FirstDigitAt(content) > 1 /\ content[FirstDigitAt(content) - 1] = marker

\* the escape sequence ends with the code lead;5;n, which stands alone or
\* after other codes
EndsWithPaletteCode(seq, lead, n) ==
    LET code == lead \o <<";", "5", ";">> \o StrNat(n) \o <<"m">>
    IN  /\ Len(seq) > Len(code)
        /\ SubSeq(seq, Len(seq) - Len(code) + 1, Len(seq)) = code
        /\ seq[Len(seq) - Len(code)] \in {"[", ";"}

\* C17: the digit run of a tag is one palette literal: the tag fails as an
\* invalid key if a digit directly follows a reset marker or if the value
\* of the run is above 255, and otherwise the run renders as 38;5;N when
\* it is the foreground and as 48;5;N when it is the background, for
\* every N in 0..255.
C17_palette_literal ==
    TagDone =>
        IF RunFollows(text, "!")
        THEN res.err = invalid_key_error(<<"!", text[FirstDigitAt(text)]>>)
        ELSE IF ParseNat(DigitRun(text)) > 255
        THEN res.err = invalid_key_error(DigitRun(text))
        ELSE IF RunFollows(text, "#")
        THEN /\ res.err = NoError
             /\ res.bg_color = PyInt(ParseNat(DigitRun(text)))
             /\ EndsWithPaletteCode(res.bg_color_escseq, <<"4", "8">>, ParseNat(DigitRun(text)))
             /\ res.fg_color = None => EndsWithPaletteCode(res.full_escseq, <<"4", "8">>,
                                                           ParseNat(DigitRun(text)))
        ELSE /\ res.err = NoError
             /\ res.fg_color = PyInt(ParseNat(DigitRun(text)))
             /\ EndsWithPaletteCode(res.fg_color_escseq, <<"3", "8">>, ParseNat(DigitRun(text)))
             /\ EndsWithPaletteCode(res.full_escseq, <<"3", "8">>, ParseNat(DigitRun(text)))

\* the literal 0255 after a colour key and a background marker is the
\* background 255
C17_witness_largest_background ==
    /\ TagDone
    /\ text = <<"c", "#", "0", "2", "5", "5">>
    /\ res.err = NoError
    /\ res.bg_color = PyInt(255)
    /\ res.bg_color_escseq = <<"ESC", "[", "4", "8", ";", "5", ";", "2", "5", "5", "m">>

\* a reset marker stands directly before a key letter that is no reset
\* key, and the scan gets as far as that letter
ResetMarkerBeforeOtherKey(content) ==
    \E i \in 1..(Len(content) - 1) :
        /\ content[i] = "!"
        /\ InAllKeyLetters(content[i + 1])
        /\ RESET_MODES_FOR_FORMAT_CHARS(content[i + 1]) = None
        /\ ScansUpTo(content, i + 1)

\* C18: every violation of the tag grammar fails with the same kind of
\* error, the ValueError of a malformed tag, a reset marker before a key
\* letter that is no reset key ('!r') and a background marker before a
\* letter that is no colour key ('#f') included.
C18_every_violation_same_error_kind ==
    TagDone /\ res.err # NoError => res.err.type = "ValueError"

\* what the code does: the failure is a ValueError except where a reset
\* marker stands before a key letter that is no reset key, which ends with
\* the TypeError of the call of _invalid_key_error
C18_error_kind_by_violation ==
    TagDone /\ res.err # NoError =>
        IF ResetMarkerBeforeOtherKey(text)
        THEN res.err = InvalidKeyErrorArity
        ELSE res.err.type = "ValueError"

\* '!r' ends with the TypeError, no malformed-tag error is built
C18_reset_marker_before_colour_key ==
    /\ TagDone
    /\ text = <<"!", "r">>
    /\ res.err.type = "TypeError"

\* the scan of the characters before position i meets no error, and
\* neither does the literal that ends before position i
LiteralEndsBefore(content, i) ==
    /\ ScansUpTo(content, i)
    /\ set_n_256_color(ScanFrom(ScanStart, SubSeq(content, 1, i - 1), 0),
                       content, i - 1, 0).err = NoError

\* the last character of the tag content is a letter that follows no
\* marker, and the scan gets as far as the tests of that letter
EndsWithUnmarkedLetter(content) ==
    /\ Len(content) > 0
    /\ ~IsMarker(content[Len(content)])
    /\ ~IsSeparator(content[Len(content)])
    /\ ~IsDigit(content[Len(content)])
    /\ Len(content) > 1 => ~IsMarker(content[Len(content) - 1])
    /\ LiteralEndsBefore(content, Len(content))

\* C19: an un-marked character that passes the key-alphabet check and is
\* no style key resolves to a foreground colour mode: an un-marked key
\* character never sets the foreground to no colour, and a character that
\* is no style key and no foreground key fails as an invalid key.
C19_unmarked_letter_is_style_or_foreground ==
    TagDone /\ EndsWithUnmarkedLetter(text) =>
        IF STYLE_MODES_FOR_FORMAT_CHARS(text[Len(text)]) # None
        THEN res.err = NoError
        ELSE IF COLOR_MODES_FOR_FORMAT_CHARS(text[Len(text)]) # None
        THEN res.err = NoError /\ res.fg_color = COLOR_MODES_FOR_FORMAT_CHARS(text[Len(text)])
        ELSE res.err = invalid_key_error(<<text[Len(text)]>>)

\* what the code does: an un-marked letter that is a reset key only passes
\* the key-alphabet check and sets the foreground to no colour
C19_unmarked_reset_letter_clears_foreground ==
    TagDone /\ EndsWithUnmarkedLetter(text) =>
        IF STYLE_MODES_FOR_FORMAT_CHARS(text[Len(text)]) # None
        THEN res.err = NoError
        ELSE IF InAllKeyLetters(text[Len(text)])
        THEN res.err = NoError /\ res.fg_color = COLOR_MODES_FOR_FORMAT_CHARS(text[Len(text)])
        ELSE res.err = invalid_key_error(<<text[Len(text)]>>)

\* 'ra': the un-marked reset letter a is accepted and takes the foreground
\* red away
C19_reset_letter_after_colour_key ==
    /\ TagDone
    /\ text = <<"r", "a">>
    /\ EndsWithUnmarkedLetter(text)
    /\ res.err = NoError
    /\ res.fg_color = None
    /\ res.full_escseq = <<>>

\* the letters at the positions i < j are two occurrences of one style key
\* or of one reset key
RepeatedKeyAt(content, i, j) ==
    /\ i < j
    /\ content[i] = content[j]
    /\ \/ IsStyleKeyAt(content, i) /\ IsStyleKeyAt(content, j)
       \/ IsResetKeyAt(content, i) /\ IsResetKeyAt(content, j)

\* the tag content without the key whose letter stands at position j (a
\* reset key goes with its marker); where the key stood directly after a
\* digit and so ended a numeric literal, a separator ends the literal in
\* its place
WithoutKeyAt(content, j) ==
    LET start == IF IsResetKeyAt(content, j) THEN j - 1 ELSE j
    IN  SubSeq(content, 1, start - 1)
        \o (IF start > 1 /\ IsDigit(content[start - 1]) THEN <<",">> ELSE <<>>)
        \o SubSeq(content, j + 1, Len(content))

\* two tags have the same five escape sequences and the same resets of
\* styles
SameRendering(a, b) ==
    /\ a.err = b.err
    /\ a.resets_escseq = b.resets_escseq
    /\ a.styles_escseq = b.styles_escseq
    /\ a.bg_color_escseq = b.bg_color_escseq
    /\ a.fg_color_escseq = b.fg_color_escseq
    /\ a.full_escseq = b.full_escseq
    /\ a.resets_of_styles = b.resets_of_styles
    /\ a.resets_of_styles_escseq = b.resets_of_styles_escseq

ResetAllSeq == <<"ESC", "[", "0", "m">>

\* the format string holds neither of the two brackets of the call
NoDelimiters(str, tag_brackets) ==
    ~Contains(str, tag_brackets[1]) /\ ~Contains(str, tag_brackets[2])

\* C21: for every text that contains no tags, fancyformat with both
\* implicit resets disabled returns the text unchanged, and with implicit
\* resets enabled returns the text with only the reset-all sequence added
\* at the enabled ends.
C21_text_without_tags_round_trip ==
    FormatCompiled /\ NoDelimiters(text, opts.tag_brackets) =>
        /\ res.err = NoError
        /\ res.out = (IF opts.start_reset_all THEN ResetAllSeq ELSE <<>>) \o text
                     \o (IF opts.end_reset_all THEN ResetAllSeq ELSE <<>>)

\* what the code adds at an enabled end: the reset-all sequence under the
\* default brackets, the four characters of the reset-all tag under others
ImplicitReset(enabled, tag_brackets) ==
    IF ~enabled THEN <<>>
    ELSE IF tag_brackets = DefaultBrackets THEN ResetAllSeq
    ELSE ResetAllTag

\* what the code does for a text without brackets: the round trip holds
\* for the default brackets when the text holds no replacement character
\* of an escaped bracket; other brackets get the reset-all tag as text or,
\* where the regular expression of the tags is none, an error
C21_round_trip_by_brackets ==
    FormatCompiled /\ NoDelimiters(text, opts.tag_brackets) =>
        IF tag_re_error(opts.tag_brackets) # NoError
        THEN res.err = tag_re_error(opts.tag_brackets)
        ELSE /\ res.err = NoError
             /\ res.out = ImplicitReset(opts.start_reset_all, opts.tag_brackets)
                          \o Replace(text, <<BracketsRepl_OPEN>>, <<opts.tag_brackets[1]>>)
                          \o ImplicitReset(opts.end_reset_all, opts.tag_brackets)

\* 'x' and the replacement character, compiled with the default brackets
\* and no implicit reset, come back as 'x<'
C21_replacement_character_in_text ==
    /\ FormatCompiled
    /\ text = <<"z", BracketsRepl_OPEN>>
    /\ opts.tag_brackets = DefaultBrackets /\ ~opts.start_reset_all /\ ~opts.end_reset_all
    /\ NoDelimiters(text, opts.tag_brackets)
    /\ res.out = <<"z", "<">>

\* a string begins, or ends, with the given characters
BeginsWith(str, part) == Len(str) >= Len(part) /\ SubSeq(str, 1, Len(part)) = part

EndsWith(str, part) ==
    Len(str) >= Len(part) /\ SubSeq(str, Len(str) - Len(part) + 1, Len(str)) = part

\* C22: with start_reset_all (end_reset_all) enabled the string that
\* fancyformat returns begins (ends) with the reset-all sequence ESC[0m,
\* for every pair of tag brackets, and the implicit tag does not come out
\* as literal text.
C22_implicit_reset_is_compiled ==
    FormatReturned =>
        /\ opts.start_reset_all =>
               BeginsWith(res.out, ResetAllSeq) /\ ~BeginsWith(res.out, ResetAllTag)
        /\ opts.end_reset_all =>
               EndsWith(res.out, ResetAllSeq) /\ ~EndsWith(res.out, ResetAllTag)

\* what the code does: the implicit tag is written with the default
\* brackets, so it is compiled under the default brackets and comes out as
\* its four characters under any other pair
C22_implicit_reset_by_brackets ==
    FormatReturned =>
        /\ opts.start_reset_all =>
               BeginsWith(res.out, ImplicitReset(TRUE, opts.tag_brackets))
        /\ opts.end_reset_all =>
               EndsWith(res.out, ImplicitReset(TRUE, opts.tag_brackets))

\* '[r]x' with the brackets '[]' and both implicit resets: the tag [r] is
\* compiled, the implicit tags are text
C22_implicit_tag_as_text ==
    /\ FormatReturned
    /\ text = <<"[", "r", "]", "z">>
    /\ opts.tag_brackets = <<"[", "]">> /\ opts.start_reset_all /\ opts.end_reset_all
    /\ res.out = ResetAllTag \o <<"ESC", "[", "3", "1", "m", "z">> \o ResetAllTag

\* the string with every character old replaced by the character new
Swap(str, old, new) == [k \in 1..Len(str) |-> IF str[k] = old THEN new ELSE str[k]]

\* a format string written with the brackets of the call, rewritten with
\* the default brackets, and a returned string rewritten the other way
ToDefault(str, tag_brackets) ==
    Swap(Swap(str, tag_brackets[1], "<"), tag_brackets[2], ">")

FromDefault(str, tag_brackets) ==
    Swap(Swap(str, "<", tag_brackets[1]), ">", tag_brackets[2])

\* a call without implicit resets whose format string means the same when
\* it is rewritten with the default brackets
PlainCallWithBrackets ==
    /\ FormatCompiled
    /\ ~opts.start_reset_all /\ ~opts.end_reset_all
    /\ opts.tag_brackets # DefaultBrackets => NoDelimiters(text, DefaultBrackets)

\* what the same call gives when it is written with the default brackets
AsWithDefault(str, tag_brackets) ==
    fancyformat(ToDefault(str, tag_brackets), DefaultBrackets, FALSE, FALSE)

\* C23: fancyformat accepts any pair of two characters as tag brackets: for
\* every pair it extracts the substrings bounded by the pair as it extracts
\* '<'...'>' for the default pair, and it raises no error but the ValueError
\* of the bracket validation and of the tag compilation.
C23_any_pair_works_as_default ==
    PlainCallWithBrackets =>
        /\ res.err.type \in {"none", "ValueError"}
        /\ res.err = AsWithDefault(text, opts.tag_brackets).err
        /\ res.out = FromDefault(AsWithDefault(text, opts.tag_brackets).out, opts.tag_brackets)

\* what the code does: a pair for which the regular expression of the tags
\* compiles works as the default pair does; for any other pair a format
\* string that passes the bracket validation ends with re.error
C23_pair_works_if_tag_re_compiles ==
    PlainCallWithBrackets =>
        IF /\ tag_re_error(opts.tag_brackets) # NoError
           /\ ~IsMismatchError(AsWithDefault(text, opts.tag_brackets).err)
        THEN res.err = tag_re_error(opts.tag_brackets)
        ELSE /\ res.err = AsWithDefault(text, opts.tag_brackets).err
             /\ res.out = FromDefault(AsWithDefault(text, opts.tag_brackets).out,
                                      opts.tag_brackets)

\* '(r]x' with the brackets '(]' passes the bracket validation and ends
\* with re.error, where '<r>x' compiles
C23_unescaped_parenthesis ==
    /\ PlainCallWithBrackets
    /\ text = <<"(", "r", "]", "z">>
    /\ opts.tag_brackets = <<"(", "]">>
    /\ res.err.type = "re.error"
    /\ AsWithDefault(text, opts.tag_brackets).out = <<"ESC", "[", "3", "1", "m", "z">>

\* the escape sequence of a list of codes; no code gives the empty string
SeqOfCodes(codes) ==
    IF Len(codes) = 0 THEN <<>> ELSE <<"ESC", "[">> \o Join(<<";">>, codes) \o <<"m">>

\* C24: in a parsed tag the background-only and the foreground-only escape
\* sequence each hold only the code of that colour slot (and are empty when
\* the slot is unset), the resets-only and the styles-only sequence hold
\* only the reset codes and the style codes, and the full sequence holds
\* the codes of the four together.
C24_each_sequence_holds_its_codes_only ==
    TagParsed =>
        /\ res.bg_color_escseq = SeqOfCodes(SlotCode(res.bg_color, <<"4", "8">>, TRUE))
        /\ res.fg_color_escseq = SeqOfCodes(SlotCode(res.fg_color, <<"3", "8">>, FALSE))
        /\ res.resets_escseq = SeqOfCodes(ResetCodesInOrder(text))
        /\ res.styles_escseq = SeqOfCodes(StyleCodesInOrder(text))
        /\ res.full_escseq = SeqOfCodes(CodesInFixedOrder(text, res))

\* the codes of a colour sequence: none when the slot is unset, else the
\* codes of the resets and of the styles of the tag before the slot's code
ColourSequenceCodes(content, color, palette_prefix, for_bg) ==
    IF color = None THEN <<>>
    ELSE ResetCodesInOrder(content) \o StyleCodesInOrder(content)
         \o SlotCode(color, palette_prefix, for_bg)

\* C24 as the code has it: the sequence of a colour slot is empty when the
\* slot is unset and otherwise holds the reset codes and the style codes of
\* the tag before the code of the slot; the resets-only and the styles-only
\* sequence hold only the reset codes and the style codes, and the full
\* sequence holds the codes of the four together.
C24_colour_sequences_carry_resets_and_styles ==
    TagParsed =>
        /\ res.bg_color_escseq
               = SeqOfCodes(ColourSequenceCodes(text, res.bg_color, <<"4", "8">>, TRUE))
        /\ res.fg_color_escseq
               = SeqOfCodes(ColourSequenceCodes(text, res.fg_color, <<"3", "8">>, FALSE))
        /\ res.resets_escseq = SeqOfCodes(ResetCodesInOrder(text))
        /\ res.styles_escseq = SeqOfCodes(StyleCodesInOrder(text))
        /\ res.full_escseq = SeqOfCodes(CodesInFixedOrder(text, res))

\* 'f#5r': the background sequence holds the style code and the palette
\* code, the foreground sequence the style code and the code of red
C24_witness_colours_after_style ==
    /\ TagParsed
    /\ text = <<"f", "#", "5", "r">>
    /\ res.bg_color_escseq = <<"ESC", "[", "1", ";", "4", "8", ";", "5", ";", "5", "m">>
    /\ res.fg_color_escseq = <<"ESC", "[", "1", ";", "3", "1", "m">>
    /\ res.styles_escseq = <<"ESC", "[", "1", "m">>
    /\ res.resets_escseq = <<>>

(***************************************************************************)
(* What the claims about the mode registry speak of.                       *)
(***************************************************************************)
\* no two positions of a tuple of keys hold the same key
KeysDistinct(keys) == \A i \in 1..Len(keys) : \A j \in 1..Len(keys) : keys[i] = keys[j] => i = j

\* the keys of a tuple, as a set
KeySet(keys) == {keys[i] : i \in 1..Len(keys)}

\* C25: the mode registry holds 17 colour, 10 style and 9 reset modes; no
\* two colour modes, no two style modes and no two reset modes share a key;
\* no letter is a style key and a foreground colour key, so that a letter
\* a tag resolves as a style is never a colour; and every style mode refers
\* to a reset mode of the registry.
C25_registry_keys_collision_free ==
    /\ Len(COLOR_MODES) = 17 /\ Len(STYLE_MODES) = 10 /\ Len(RESET_MODES) = 9
    /\ KeysDistinct(ColorKeys) /\ KeysDistinct(StyleKeys) /\ KeysDistinct(ResetKeys)
    /\ KeySet(StyleKeys) \cap KeySet(ColorKeys) = {}
    /\ \A i \in 1..Len(STYLE_MODES) :
           \E j \in 1..Len(RESET_MODES) : STYLE_MODES[i].reset_mode = RESET_MODES[j]
    /\ TagParsed =>
           \A i \in 1..Len(text) :
               IsStyleKeyAt(text, i) => COLOR_MODES_FOR_FORMAT_CHARS(text[i]) = None

\* 'Ufc': two un-marked letters are styles of the registry and leave the
\* foreground to the colour key that follows them
C25_witness_styles_then_colour ==
    /\ TagParsed
    /\ text = <<"U", "f", "c">>
    /\ Len(res.styles) = 2
    /\ res.styles[1] = STYLE_MODES[5] /\ res.styles[2] = STYLE_MODES[1]
    /\ res.resets_of_styles = <<RESET_MODES[5], RESET_MODES[3]>>
    /\ res.fg_color = PyMode(COLOR_MODES[8])

(***************************************************************************)
(* Specification of the palette indexes as colours: one index is given as  *)
(* foreground or as background in one of three ways, by a tag literal, by  *)
(* the fg or bg argument of escseq, or by a ModeCombi handed to escseq.    *)
(***************************************************************************)
InitEscseq ==
    /\ text = <<>>
    /\ opts \in [fn : {"escseq"}, tag_brackets : {DefaultBrackets}, for_bg : BOOLEAN,
                 n : 0..MaxPaletteValue]
    /\ pc = "input"
    /\ res = NoResult
    /\ log = <<>>

\* FormatTag('<n>') or FormatTag('<#n>'), read for its full escape sequence
RenderTagLiteral ==
    /\ pc = "input" /\ opts.fn = "escseq"
    /\ text' = (IF opts.for_bg THEN <<"#">> ELSE <<>>) \o StrNat(opts.n)
    /\ res' = [err |-> TagOf(text').err, out |-> TagOf(text').full_escseq]
    /\ pc' = "by_tag"
    /\ UNCHANGED <<opts, log>>

\* escseq(fg=n) or escseq(bg=n)
RenderArgument ==
    /\ pc = "input" /\ opts.fn = "escseq"
    /\ res' = [err |-> NoError,
               out |-> escseq(None, IF opts.for_bg THEN None ELSE PyInt(opts.n),
                              IF opts.for_bg THEN PyInt(opts.n) ELSE None, None, NoModeCombi)]
    /\ pc' = "by_argument"
    /\ UNCHANGED <<text, opts, log>>

\* escseq(mode_combi=ModeCombi(fg=n)) or escseq(mode_combi=ModeCombi(bg=n))
RenderModeCombi ==
    /\ pc = "input" /\ opts.fn = "escseq"
    /\ res' = [err |-> NoError,
               out |-> escseq(None, None, None, None,
                              ModeCombi(IF opts.for_bg THEN None ELSE PyInt(opts.n),
                                        IF opts.for_bg THEN PyInt(opts.n) ELSE None, None))]
    /\ pc' = "by_mode_combi"
    /\ UNCHANGED <<text, opts, log>>

NextEscseq == RenderTagLiteral \/ RenderArgument \/ RenderModeCombi

SpecEscseq == InitEscseq /\ [][NextEscseq]_vars

\* a palette index of the range 0..255 was given in one of the three ways
PaletteIndexGiven ==
    opts.fn = "escseq" /\ pc \in {"by_tag", "by_argument", "by_mode_combi"} /\ opts.n <= 255

\* the sequence of the one code 38;5;n, or 48;5;n for the background
PaletteSeq(n, for_bg) ==
    <<"ESC", "[">> \o (IF for_bg THEN <<"4", "8">> ELSE <<"3", "8">>)
    \o <<";", "5", ";">> \o StrNat(n) \o <<"m">>

\* C26: every palette index n in 0..255, the index 0 included, is usable
\* where a colour mode is: given as foreground or background by a tag
\* literal, by the fg or bg argument of escseq or through a ModeCombi, it
\* gives the code 38;5;n or 48;5;n in the rendered sequence.
C26_palette_index_usable_everywhere ==
    PaletteIndexGiven => res.err = NoError /\ res.out = PaletteSeq(opts.n, opts.for_bg)

\* what the code does: the index 0 in a ModeCombi counts as no colour
C26_palette_index_zero_dropped_from_mode_combi ==
    PaletteIndexGiven =>
        /\ res.err = NoError
        /\ res.out = IF pc = "by_mode_combi" /\ opts.n = 0 THEN <<>>
                     ELSE PaletteSeq(opts.n, opts.for_bg)

\* black of the palette as the foreground of a ModeCombi gives no sequence
C26_black_foreground_in_mode_combi ==
    /\ PaletteIndexGiven
    /\ pc = "by_mode_combi" /\ opts.n = 0 /\ ~opts.for_bg
    /\ res.out = <<>>

(***************************************************************************)
(* Specification of the prompts with markup: the five prompt functions are *)
(* called with a prompt format typed from brackets, backslash, a style key *)
(* and a letter, and read one line after the other as in Spec.             *)
(***************************************************************************)
MaxPromptLen == 3

PromptAlphabet == {"<", ">", "\\", "f", "P"}

\* the prompt formats that fancyformat compiles, so that the call gets as
\* far as its loop
\* prompt formats longer than MaxPromptLen
PromptSeeds == { <<"P", ":", " ">>,
                 <<"<", "f", ">", "P", "\\", "<", "1", "\\", ">", ":", " ">> }

PromptFormats ==
    { p \in PromptSeeds \cup UNION { [1..n -> PromptAlphabet] : n \in 0..MaxPromptLen } :
        fancyformat(p \o ResetAllTag \o <<"<", "c", ">">>, DefaultBrackets, FALSE, FALSE).err
            = NoError }

\* one call of each prompt function, with commands, exit codes and every
\* marking tag configured
MarkingConfigs ==
    { c \in TextConfigs \cup YnConfigs \cup IntConfigs \cup DictConfigs \cup OptionsConfigs :
        /\ c.commands = <<<<"h">>, <<"Y">>>>
        /\ c.command_marking_format_tag # None
        /\ c.repeat_on_empty
        /\ "call_before_exit" \in DOMAIN c => c.call_before_exit
        /\ "validate_func" \in DOMAIN c => c.validate_func = "none"
        /\ "ignore_case" \in DOMAIN c => ~c.ignore_case
        /\ "marking_extras" \in DOMAIN c => c.marking_extras = <<>>
        /\ "min" \in DOMAIN c => c.min = PyInt(1) /\ c.max = PyInt(5)
        /\ "error_msg_int_out_of_range" \in DOMAIN c => c.error_msg_int_out_of_range = None
        /\ "option_dict" \in DOMAIN c =>
               Len(c.option_dict) = 3 /\ c.option_marking_format_tags.kind = "str"
        /\ "option_formats" \in DOMAIN c =>
               Len(c.option_formats) = 2 /\ c.return_options = None /\ c.msg_on_exit = None }

InitPromptWidth ==
    /\ opts \in { [c EXCEPT !.prompt_format = p] : c \in MarkingConfigs, p \in PromptFormats }
    /\ text = <<>>
    /\ pc = "read"
    /\ res = Result("none", None, NoError)
    /\ log = <<>>

SpecPromptWidth == InitPromptWidth /\ [][Next]_vars

RECURSIVE VisibleChars(_, _)
\* the number of characters of a prompt format, from position i on, that
\* the terminal shows: a backslash-escaped bracket counts as one, a tag as
\* none, every other character as one
VisibleChars(format_str, i) ==
    IF i > Len(format_str) THEN 0
    ELSE IF format_str[i] = "\\" /\ i < Len(format_str) /\ format_str[i + 1] \in {"<", ">"}
    THEN 1 + VisibleChars(format_str, i + 2)
    ELSE IF format_str[i] = "<" /\ RefTagEnd(format_str, ">", i + 1) # 0
    THEN VisibleChars(format_str, RefTagEnd(format_str, ">", i + 1) + 1)
    ELSE 1 + VisibleChars(format_str, i + 1)

\* the numbers of places by which the mark of the last pass moved the
\* cursor right
PlacesMovedRight ==
    { n \in 1..Len(opts.prompt_format) :
        \E k \in DOMAIN MarkEvents : MarkEvents[k].str = CursorRight(n) }

\* C27: in every prompt variant the in-place mark moves the cursor right
\* by the number of visible characters of the displayed prompt: escape
\* sequences count as none, a backslash-escaped bracket of the prompt
\* format counts as one character.
C27_mark_moves_right_by_visible_width ==
    Len(MarkEvents) > 0 =>
        /\ VisibleChars(opts.prompt_format, 1) = Len(unfancy(Prompt(opts)))
        /\ PlacesMovedRight = {VisibleChars(opts.prompt_format, 1)} \ {0}

\* what the code does: fancyinput_options counts the characters left when
\* the backslashes are taken away first and the tags after, so that an
\* escaped pair of brackets counts as a tag; the other four functions
\* count the characters of the compiled prompt outside escape sequences
C27_width_by_prompt_function ==
    Len(MarkEvents) > 0 =>
        /\ VisibleChars(opts.prompt_format, 1) = Len(unfancy(Prompt(opts)))
        /\ PlacesMovedRight =
               {IF opts.fn = "fancyinput_options"
                THEN Len(remove_format_tags(remove_backslash_before_brackets(opts.prompt_format)))
                ELSE VisibleChars(opts.prompt_format, 1)} \ {0}

\* fancyinput_options with the prompt format '<f>P\<1\>: ' shows 'P<1>: ',
\* six characters, and marks an exit code three places to the right
C27_escaped_brackets_in_options_prompt ==
    /\ opts.fn = "fancyinput_options"
    /\ opts.prompt_format = <<"<", "f", ">", "P", "\\", "<", "1", "\\", ">", ":", " ">>
    /\ res.outcome = "exit"
    /\ unfancy(Prompt(opts)) = <<"P", "<", "1", ">", ":", " ">>
    /\ VisibleChars(opts.prompt_format, 1) = 6
    /\ PlacesMovedRight = {3}

(***************************************************************************)
(* The colour slot of a palette literal                                    *)
(***************************************************************************)
\* a palette literal starts at position i of the tag content
LiteralStartsAt(content, i) ==
    IsDigit(content[i]) /\ (i > 1 => ~IsDigit(content[i - 1]))

RECURSIVE LiteralFrom(_, _)
\* the digits of the literal that starts at position i
LiteralFrom(content, i) ==
    IF i > Len(content) \/ ~IsDigit(content[i]) THEN <<>>
    ELSE <<content[i]>> \o LiteralFrom(content, i + 1)

\* a '#' marker stands directly before position i
AfterBgMarker(content, i) == i > 1 /\ content[i - 1] = "#"

\* a colour key for the slot stands at position i: after a '#' marker for
\* the background, after no marker for the foreground
ColourKeyAt(content, i, for_bg) ==
    /\ COLOR_MODES_FOR_FORMAT_CHARS(content[i]) # None
    /\ AfterBgMarker(content, i) = for_bg
    /\ ~IsResetKeyAt(content, i)

\* a letter after no marker that is no style key stands at position i
UnmarkedNonStyleAt(content, i) ==
    /\ InAllKeyLetters(content[i])
    /\ STYLE_MODES_FOR_FORMAT_CHARS(content[i]) = None
    /\ ~AfterBgMarker(content, i)
    /\ ~IsResetKeyAt(content, i)

\* the positions at which a colour key or a palette literal is assigned to
\* the slot
SlotAssignments(content, for_bg) ==
    { i \in 1..Len(content) :
        \/ LiteralStartsAt(content, i) /\ AfterBgMarker(content, i) = for_bg
        \/ ColourKeyAt(content, i, for_bg) }

\* the colour of the key or literal at position i
AssignedAt(content, i) ==
    IF IsDigit(content[i]) THEN PyInt(ParseNat(LiteralFrom(content, i)))
    ELSE COLOR_MODES_FOR_FORMAT_CHARS(content[i])

\* the colour of the last of the given assignments, None if there is none
LastOf(content, positions) ==
    IF positions = {} THEN None
    ELSE AssignedAt(content, CHOOSE i \in positions : \A j \in positions : j <= i)

\* the escape sequence ends with the codes of the two colour slots
RendersSlots(seq, bg_color, fg_color) ==
    LET codes == SlotCode(bg_color, <<"4", "8">>, TRUE) \o SlotCode(fg_color, <<"3", "8">>, FALSE)
        tail == Join(<<";">>, codes) \o <<"m">>
    IN  Len(codes) > 0 =>
             /\ Len(seq) > Len(tail)
             /\ SubSeq(seq, Len(seq) - Len(tail) + 1, Len(seq)) = tail
             /\ seq[Len(seq) - Len(tail)] \in {"[", ";"}

\* C28: a palette literal goes to the background slot if and only if a
\* '#' marker stands directly before it and to the foreground slot
\* otherwise, and each slot holds and renders the last colour key or
\* palette literal assigned to it in the tag.
C28_slot_holds_last_key_or_literal ==
    TagParsed =>
        /\ res.bg_color = LastOf(text, SlotAssignments(text, TRUE))
        /\ res.fg_color = LastOf(text, SlotAssignments(text, FALSE))
        /\ RendersSlots(res.full_escseq, LastOf(text, SlotAssignments(text, TRUE)),
                        LastOf(text, SlotAssignments(text, FALSE)))

\* what the code does: the foreground slot holds the colour of the last
\* literal or un-marked letter that is no style key, which is no colour
\* for a letter that is a reset key only; the background slot is as stated
C28_foreground_cleared_by_reset_letter ==
    TagParsed =>
        /\ res.bg_color = LastOf(text, SlotAssignments(text, TRUE))
        /\ res.fg_color = LastOf(text, SlotAssignments(text, FALSE)
                                       \cup { i \in 1..Len(text) : UnmarkedNonStyleAt(text, i) })
        /\ RendersSlots(res.full_escseq, res.bg_color, res.fg_color)

\* '5a#5': the first literal is the foreground 5, the reset letter a
\* takes the foreground away, and the second literal is the background 5
C28_literal_lost_to_reset_letter ==
    /\ TagParsed
    /\ text = <<"5", "a", "#", "5">>
    /\ SlotAssignments(text, FALSE) = {1}
    /\ SlotAssignments(text, TRUE) = {4}
    /\ res.bg_color = PyInt(5)
    /\ res.fg_color = None
    /\ res.full_escseq = <<"ESC", "[", "4", "8", ";", "5", ";", "5", "m">>

(***************************************************************************)
(* Bracketed substrings of a format string                                 *)
(***************************************************************************)
\* the format string of the call with its escaped brackets replaced
EscapedText == escape_tag_brackets(text, opts.tag_brackets)

\* the format string of the call holds no bracket mismatch
PassedValidation == BalancedVerdict(EscapedText, opts.tag_brackets) = NoError

\* the bracketed substrings of a validated string, opener and closer
\* included, from left to right
Bracketed(str, brackets) ==
    LET d == DelimiterIndexes(str, brackets, 0)
    IN  [k \in 1..(Len(d) \div 2) |-> SubSeq(str, d[2 * k - 1] + 1, d[2 * k] + 1)]

\* a character the tag scanner has no branch for
Unrecognized(char) ==
    ~(InAllKeyLetters(char) \/ IsDigit(char) \/ IsMarker(char) \/ IsSeparator(char))

\* a bracketed substring holds an unrecognized character between its
\* brackets
HoldsUnrecognized(tag) == \E i \in 2..(Len(tag) - 1) : Unrecognized(tag[i])

\* how often the character stands in the string
Occurrences(str, char) == Cardinality({i \in DOMAIN str : str[i] = char})

\* C29: whenever the format string passed the bracket validation, every
\* bracketed substring is compiled as a tag, whatever stands between the
\* brackets: an unrecognized character inside brackets makes the call fail
\* with the invalid-key error of the tag compiler, and the output of a
\* call that returns holds no closed bracket but the escaped ones.
C29_every_bracketed_substring_is_compiled ==
    (FormatCompiled /\ PassedValidation) =>
        /\ (\E k \in DOMAIN Bracketed(EscapedText, opts.tag_brackets) :
                HoldsUnrecognized(Bracketed(EscapedText, opts.tag_brackets)[k]))
           => (res.err.type = "ValueError" /\ res.err.msg = "invalid format key")
        /\ res.err = NoError =>
               Occurrences(res.out, opts.tag_brackets[2]) = Occurrences(EscapedText, BracketsRepl_CLOSED)

\* what the code does: the statement holds for the calls whose regular
\* expression compiles and whose bracketed substrings hold no line break
C29_compiled_unless_line_break ==
    (/\ FormatCompiled /\ PassedValidation
     /\ tag_re_error(opts.tag_brackets) = NoError
     /\ \A k \in DOMAIN Bracketed(EscapedText, opts.tag_brackets) :
            ~Contains(Bracketed(EscapedText, opts.tag_brackets)[k], "LF")) =>
        /\ (\E k \in DOMAIN Bracketed(EscapedText, opts.tag_brackets) :
                HoldsUnrecognized(Bracketed(EscapedText, opts.tag_brackets)[k]))
           => (res.err.type = "ValueError" /\ res.err.msg = "invalid format key")
        /\ res.err = NoError =>
               Occurrences(res.out, opts.tag_brackets[2]) = Occurrences(EscapedText, BracketsRepl_CLOSED)

\* '<x' line break '>': the letter x is no key, yet the call returns and
\* the bracketed substring is in the output as it was typed
C29_unknown_key_before_line_break ==
    /\ FormatCompiled
    /\ opts.tag_brackets = DefaultBrackets /\ ~opts.start_reset_all /\ ~opts.end_reset_all
    /\ text = <<"<", "z", "LF", ">">>
    /\ PassedValidation
    /\ HoldsUnrecognized(Bracketed(EscapedText, opts.tag_brackets)[1])
    /\ FormatTag(<<"<", "z", ">">>, DefaultBrackets).err = invalid_key_error(<<"z">>)
    /\ res.err = NoError
    /\ res.out = text

(***************************************************************************)
(* The reset after a read                                                  *)
(***************************************************************************)
\* the positions of the log at which a line is read
ReadsInLog == { i \in DOMAIN log : log[i].ev = "input" }

\* C30: whenever a line was read, the empty line that is read again
\* included, the event that directly follows the read is the printing of
\* the reset-all sequence ESC[0m, and every acceptance test, mark, message
\* and callback of the pass comes after it.
C30_reset_all_directly_after_every_read ==
    /\ res.outcome # "none" => ReadsInLog = {1}
    /\ \A i \in ReadsInLog :
           /\ i < Len(log)
           /\ log[i + 1] = EvPrint("reset_all", <<"ESC", "[", "0", "m">>)
           /\ \A j \in DOMAIN log : j \notin {i, i + 1} => j > i + 1

\* an exit code was read after the prompt of fancyinput_yn and marked: the
\* reset comes second, the mark and the exit after it
C30_reset_before_mark_and_exit ==
    /\ opts.fn = "fancyinput_yn"
    /\ res.outcome = "exit"
    /\ Len(MarkEvents) > 0
    /\ log[1] = EvInput(Prompt(opts))
    /\ log[2].by = "reset_all"
    /\ \E j \in 3..Len(log) : IsMarkEvent(log[j])
    /\ log[Len(log)] = EvCall("sys.exit")

(***************************************************************************)
(* Specification of one prompt call over several reads: the terminal log   *)
(* keeps what every pass of the loop wrote.                                *)
(***************************************************************************)
MaxReads == 2

\* the positions of a terminal log at which a line is read
ReadsIn(events) == { i \in DOMAIN events : events[i].ev = "input" }

\* the plan of the loop body of the function the caller called
PlanFor(c, line) ==
    CASE c.fn = "fancyinput" -> fancyinput_plan(c, line)
      [] c.fn = "fancyinput_yn" -> fancyinput_yn_plan(c, line)
      [] c.fn = "fancyinput_int" -> fancyinput_int_plan(c, line)
      [] c.fn = "fancyinput_dict_options" -> fancyinput_dict_options_plan(c, line)
      [] c.fn = "fancyinput_options" -> fancyinput_options_plan(c, line)

InitCall ==
    /\ opts \in MarkingConfigs
    /\ text = <<>>
    /\ pc = "read"
    /\ res = Result("none", None, NoError)
    /\ log = <<>>

\* one pass of the while loop of the call: the terminal keeps the earlier
\* passes
LoopPass ==
    /\ pc = "read"
    /\ Cardinality(ReadsIn(log)) < MaxReads
    /\ \E line \in Lines :
           /\ text' = line
           /\ pc' = LoopBody(opts, line, PlanFor(opts, line)).pc
           /\ res' = LoopBody(opts, line, PlanFor(opts, line)).res
           /\ log' = log \o LoopBody(opts, line, PlanFor(opts, line)).log
    /\ UNCHANGED opts

NextCall == LoopPass

SpecCall == InitCall /\ [][NextCall]_vars

\* the events of the log that put the prompt on the terminal
PromptShown == { i \in DOMAIN log : log[i].str = Prompt(opts) }

\* C31: within one prompt call the prompt is put on the terminal once: the
\* passes of the retry loop after the first one read a line without
\* showing the prompt again.
C31_prompt_displayed_once ==
    Cardinality(PromptShown) <= 1

\* the prompt is compiled once, before the loop, and every read of the
\* call, the reads after an empty line or an invalid input included,
\* shows that one compiled prompt: it is on the terminal as often as a
\* line was read
C31_prompt_shown_with_every_read ==
    /\ PromptShown = ReadsIn(log)
    /\ \A i \in ReadsIn(log) : log[i] = EvInput(Prompt(opts))
    /\ res.outcome # "none" => ReadsIn(log) # {}

\* an invalid input was marked and answered with a message, and the next
\* read showed the prompt again
C31_prompt_after_invalid_input ==
    /\ Cardinality(ReadsIn(log)) = 2
    /\ Cardinality(PromptShown) = 2
    /\ Len(Prompt(opts)) > 0
    /\ \E i \in DOMAIN log : /\ log[i].by = "fancyprintf"
                             /\ \E j \in ReadsIn(log) : j > i

(***************************************************************************)
(* The token a command is detected by                                      *)
(***************************************************************************)
\* the part of the line before its first whitespace character
TokenBeforeWhitespace(line) == SubSeq(line, 1, FindSpace(line, 1, TRUE) - 1)

\* a configured command that the token matches under the configured
\* comparison
MatchesCommand(token) == \E k \in 1..Len(opts.commands) : SameSpecial(token, opts.commands[k])

\* C32: a line is classified as a command exactly by its first
\* whitespace-delimited token, which ends at the first space or tab: the
\* token matches a configured command, under the configured comparison,
\* whenever the line is a command, and outside the yes/no prompt every
\* line whose token matches is a command.
C32_command_by_first_whitespace_token ==
    LineHandled =>
        /\ res.outcome = "command" => MatchesCommand(TokenBeforeWhitespace(text))
        /\ (opts.fn # "fancyinput_yn" /\ MatchesCommand(TokenBeforeWhitespace(text)))
           => res.outcome = "command"

\* what the code does: the token ends at the first space, and a tab is
\* part of the token
C32_command_by_token_before_first_space ==
    LineHandled =>
        /\ res.outcome = "command" => MatchesCommand(FirstToken(text))
        /\ (opts.fn # "fancyinput_yn" /\ MatchesCommand(FirstToken(text)))
           => res.outcome = "command"

\* 'h<TAB>x' with the command 'h' configured: the line is no command
C32_tab_after_command ==
    /\ LineHandled
    /\ opts.fn = "fancyinput"
    /\ text = <<"h", "TAB", "x">>
    /\ Contains(opts.commands, <<"h">>)
    /\ TokenBeforeWhitespace(text) = <<"h">>
    /\ split(text)[1] = <<"h">>
    /\ res.outcome = "valid"
    /\ res.value = Str(text)

(***************************************************************************)
(* Specification of the preparation of an input for its mark: a user types *)
(* a line character by character and _mark_input has it prepared.          *)
(***************************************************************************)
MaxMarkLen == 4

\* characters of a typed line: the two brackets, a tab, another control
\* character and a letter
MarkAlphabet == {"<", ">", "TAB", "ESC", "a"}

InitMarking ==
    /\ text = <<>>
    /\ opts = [fn |-> "_prepare_input_marking", tag_brackets |-> DefaultBrackets]
    /\ pc = "input"
    /\ res = [err |-> NoError, str |-> <<>>, tabs |-> 0]
    /\ log = <<>>

TypeLineChar ==
    /\ pc = "input"
    /\ Len(text) < MaxMarkLen
    /\ \E char \in MarkAlphabet : text' = Append(text, char)
    /\ UNCHANGED <<opts, pc, res, log>>

PrepareMarking ==
    /\ pc = "input"
    /\ res' = [err |-> NoError,
               str |-> prepare_input_marking(text).str,
               tabs |-> prepare_input_marking(text).tabs]
    /\ pc' = "done"
    /\ UNCHANGED <<text, opts, log>>

NextMarking == TypeLineChar \/ PrepareMarking

SpecMarking == InitMarking /\ [][NextMarking]_vars

MarkingPrepared == pc = "done" /\ opts.fn = "_prepare_input_marking"

IsControlChar(char) == char \in {"TAB", "LF", "DC1", "DC2", "ESC"}

\* the position of the first '>' at or after position j, 0 if there is none
RECURSIVE RegionEnd(_, _)
RegionEnd(s, j) ==
    IF j > Len(s) THEN 0 ELSE IF s[j] = ">" THEN j ELSE RegionEnd(s, j + 1)

\* what the preparation is documented to give, read from position i on: a
\* bracket region, from a '<' to the next '>', is kept as it is and its
\* tabs are not counted; outside the regions a control character becomes
\* its \xNN notation and a tab is counted
RECURSIVE RefPrepare(_, _)
RefPrepare(s, i) ==
    IF i > Len(s) THEN [str |-> <<>>, tabs |-> 0]
    ELSE IF s[i] = "<" /\ RegionEnd(s, i + 1) # 0
    THEN [str |-> SubSeq(s, i, RegionEnd(s, i + 1)) \o RefPrepare(s, RegionEnd(s, i + 1) + 1).str,
          tabs |-> RefPrepare(s, RegionEnd(s, i + 1) + 1).tabs]
    ELSE [str |-> (IF IsControlChar(s[i])
                   THEN <<"\\", "x">> \o (IF s[i] = "TAB" THEN <<"0", "9">>
                                          ELSE IF s[i] = "LF" THEN <<"0", "a">>
                                          ELSE IF s[i] = "DC1" THEN <<"1", "1">>
                                          ELSE IF s[i] = "DC2" THEN <<"1", "2">>
                                          ELSE <<"1", "b">>)
                   ELSE <<s[i]>>) \o RefPrepare(s, i + 1).str,
          tabs |-> (IF s[i] = "TAB" THEN 1 ELSE 0) + RefPrepare(s, i + 1).tabs]

\* C33: the prepared input has every control character outside the bracket
\* regions replaced by its \xNN notation and every character inside a
\* bracket region unchanged, and the tab count is the number of tabs
\* outside the bracket regions.
C33_controls_outside_regions_escaped ==
    MarkingPrepared =>
        /\ res.str = RefPrepare(text, 1).str
        /\ res.tabs = RefPrepare(text, 1).tabs

\* what the code does: the statement holds for the lines whose brackets
\* alternate '<', '>' and end closed
C33_escaped_when_brackets_alternate ==
    (MarkingPrepared /\ BalancedVerdict(text, DefaultBrackets) = NoError) =>
        /\ res.str = RefPrepare(text, 1).str
        /\ res.tabs = RefPrepare(text, 1).tabs

\* a tab and an escape character before a '>' that closes nothing: both
\* are in the prepared input as they were typed
C33_controls_before_lone_closed_bracket ==
    /\ MarkingPrepared
    /\ text = <<"TAB", "ESC", ">">>
    /\ RegionEnd(text, 1) = 3
    /\ res.str = text
    /\ res.tabs = 1

(***************************************************************************)
(* The diagnostic of a bracket mismatch                                    *)
(***************************************************************************)
\* the quote repr puts around a str: the double quote if the str holds a
\* single quote and no double quote
repr_quote(s) == IF Contains(s, "'") /\ ~Contains(s, "\"") THEN "\"" ELSE "'"

\* what repr writes for one character of a str between the quotes
repr_char(char, quote) ==
    CASE char = quote -> <<"\\", char>>
      [] char = "\\" -> <<"\\", "\\">>
      [] char = "LF" -> <<"\\", "n">>
      [] char = "TAB" -> <<"\\", "t">>
      [] char \in {"ESC", "DC1", "DC2"} -> HexEscape(char)
      [] OTHER -> <<char>>

\* repr(s) of any str, quotes included
repr_str(s) ==
    <<repr_quote(s)>> \o ConcatAll([k \in 1..Len(s) |-> repr_char(s[k], repr_quote(s))])
    \o <<repr_quote(s)>>

\* an index that is not shifted for the restored backslashes
bme_keep_index(format_str, index) == index

\* _bme_increase_index: one more for every replacement character before
\* the index
bme_increase_index(format_str, index) ==
    index + Cardinality({k \in 1..index : format_str[k] = BracketsRepl_OPEN})
          + Cardinality({k \in 1..index : format_str[k] = BracketsRepl_CLOSED})

\* the two replace calls of _bme_one_mark and _bme_two_marks
bme_restore(format_str, brackets) ==
    Replace(Replace(format_str, <<BracketsRepl_OPEN>>, <<"\\", brackets[1]>>),
            <<BracketsRepl_CLOSED>>, <<"\\", brackets[2]>>)

RECURSIVE bme_repr_index_from(_, _, _, _)
\* the loop of _bme_repr_index from the 0-based position k on
bme_repr_index_from(format_str, qubr, k, index) ==
    IF k >= index \/ k >= Len(format_str) THEN 0
    ELSE (IF format_str[k + 1] = qubr THEN 2 ELSE Len(repr_str(<<format_str[k + 1]>>)) - 2)
         + bme_repr_index_from(format_str, qubr, k + 1, index)

\* _bme_repr_index
bme_repr_index(format_str, index) ==
    bme_repr_index_from(format_str, repr_str(format_str)[1], 0, index) + 1

\* the index of the mark in the representation, for an index of the
\* validator
bme_mark(format_str, index, brackets) ==
    bme_repr_index(bme_restore(format_str, brackets), bme_increase_index(format_str, index))

\* _brackets_mismatch_error: the representation of the format string and
\* the indexes at which _bme_highlight_mismatch takes the character
bme_marks(format_str, e, brackets) ==
    [err |-> e,
     fsrepr |-> repr_str(bme_restore(format_str, brackets)),
     marks |-> IF e = NoError THEN <<>>
               ELSE IF e.index_2 = None THEN <<bme_mark(format_str, e.index_1, brackets)>>
               ELSE <<bme_mark(format_str, e.index_1, brackets),
                      bme_mark(format_str, e.index_2.n, brackets)>>]

(***************************************************************************)
(* Specification of the diagnostics: a caller builds a format string with  *)
(* quotes, backslashes and a line break and has its brackets checked.      *)
(***************************************************************************)
MaxDiagLen == 4

DiagAlphabet(tag_brackets) == {tag_brackets[1], tag_brackets[2], "\\", "'", "\"", "LF"}

InitDiag ==
    /\ text = <<>>
    /\ opts \in [fn : {"_brackets_mismatch_error"}, tag_brackets : {DefaultBrackets, <<"[", "]">>}]
    /\ pc = "input"
    /\ res = NoResult
    /\ log = <<>>

TypeDiagChar ==
    /\ pc = "input"
    /\ Len(text) < MaxDiagLen
    /\ \E char \in DiagAlphabet(opts.tag_brackets) : text' = Append(text, char)
    /\ UNCHANGED <<opts, pc, res, log>>

CheckBrackets ==
    /\ pc = "input"
    /\ res' = bme_marks(escape_tag_brackets(text, opts.tag_brackets),
                        check_brackets_match(escape_tag_brackets(text, opts.tag_brackets),
                                             opts.tag_brackets),
                        opts.tag_brackets)
    /\ pc' = "done"
    /\ UNCHANGED <<text, opts, log>>

NextDiag == TypeDiagChar \/ CheckBrackets

SpecDiag == InitDiag /\ [][NextDiag]_vars

MismatchRaised ==
    pc = "done" /\ opts.fn = "_brackets_mismatch_error" /\ res.err # NoError

RECURSIVE UnescapedAt(_, _, _)
\* the positions of the format string, from position p on, at which a
\* bracket stands that no backslash escapes, from left to right
UnescapedAt(str, brackets, p) ==
    IF p > Len(str) THEN <<>>
    ELSE IF str[p] = "\\" /\ p < Len(str) /\ str[p + 1] \in {brackets[1], brackets[2]}
    THEN UnescapedAt(str, brackets, p + 2)
    ELSE (IF str[p] \in {brackets[1], brackets[2]} THEN <<p>> ELSE <<>>)
         \o UnescapedAt(str, brackets, p + 1)

\* the positions in the format string of the delimiters an error is about:
\* the k-th unescaped bracket breaks the alternation
Offending(str, brackets) ==
    LET u == UnescapedAt(str, brackets, 1)
        bad == {k \in 1..Len(u) : IF k % 2 = 1 THEN str[u[k]] = brackets[2]
                                  ELSE str[u[k]] = brackets[1]}
    IN  IF bad # {}
        THEN LET k == CHOOSE x \in bad : \A y \in bad : x <= y
             IN  IF k % 2 = 1 THEN <<u[k]>> ELSE <<u[k - 1], u[k]>>
        ELSE <<u[Len(u)]>>

\* the 0-based offset, in the quoted representation of the format string,
\* of the character at position p
OffsetInRepr(str, p) ==
    1 + Len(ConcatAll([k \in 1..(p - 1) |-> repr_char(str[k], repr_quote(str))]))

\* C34: in every bracket-mismatch diagnostic each highlighted character is
\* the offending delimiter itself: the index of the mark is the offset of
\* that delimiter in the quoted representation of the format string, with
\* the escaped brackets before it restored and quotes, backslashes and
\* control characters taking the room their notation takes.
C34_highlight_is_offending_delimiter ==
    MismatchRaised =>
        /\ res.fsrepr = repr_str(text)
        /\ Len(res.marks) = Len(Offending(text, opts.tag_brackets))
        /\ \A k \in DOMAIN res.marks :
               /\ res.marks[k] = OffsetInRepr(text, Offending(text, opts.tag_brackets)[k])
               /\ res.fsrepr[res.marks[k] + 1] = text[Offending(text, opts.tag_brackets)[k]]
               /\ res.fsrepr[res.marks[k] + 1] \in {opts.tag_brackets[1], opts.tag_brackets[2]}

\* an escaped bracket and a line break before a closed bracket that closes
\* nothing: the mark is at offset 6 of the representation
C34_witness_mark_after_escape_and_line_break ==
    /\ MismatchRaised
    /\ text = <<"\\", ">", "LF", ">">>
    /\ res.err.msg = MsgUnmatchedClosed
    /\ res.err.index_1 = 2
    /\ res.fsrepr = <<"'", "\\", "\\", ">", "\\", "n", ">", "'">>
    /\ res.marks = <<6>>

(***************************************************************************)
(* Mastermind: colours, pins and the functions of one guess                *)
(***************************************************************************)
\* class Color: only the first letter of the name is used by the game
\* (Rot, Gruen, Blau, Weiss, Schwarz, Cyan)
Color(letter) == [kind |-> "Color", letter |-> letter]

COLORS == <<Color("R"), Color("G"), Color("B"), Color("W"), Color("S"), Color("C")>>

LENGTH == 7

CORRECT_POSITION == 1
CORRECT_COLOR == 2

KEEP == 4
DELETE == 5

AVAILABLE_INPUT_LETTERS == <<"R", "G", "B", "W", "S", "C", "X", "-">>

\* LETTER_COLOR_MAPPING[letter]: the zip pairs the six colour letters with
\* the six colours, '-' and 'X' are added
LETTER_COLOR_MAPPING(letter) ==
    IF letter = "-" THEN PyInt(KEEP)
    ELSE IF letter = "X" THEN PyInt(DELETE)
    ELSE COLORS[CHOOSE k \in 1..Len(COLORS) : AVAILABLE_INPUT_LETTERS[k] = letter]

IsColor(value) == value.kind = "Color"

RECURSIVE RemoveFirstValue(_, _)
\* list.remove(value): the list without the first occurrence of the value
RemoveFirstValue(ls, value) ==
    IF Len(ls) = 0 THEN ls
    ELSE IF ls[1] = value THEN Tail(ls)
    ELSE <<ls[1]>> \o RemoveFirstValue(Tail(ls), value)

\* a count of the colours of the guess that the solution holds, with no
\* colour taken out of the solution
CountCorrectColor_without_remove(code_guess, solution_code, k) ==
    Cardinality({j \in k..Len(code_guess) : Contains(solution_code, code_guess[j])})

RECURSIVE CountCorrectColor(_, _, _)
\* the second loop of calc_pins from the k-th colour of the shortened
\* guess on
CountCorrectColor(code_guess, solution_code, k) ==
    IF k > Len(code_guess) THEN 0
    ELSE IF Contains(solution_code, code_guess[k])
    THEN 1 + CountCorrectColor(code_guess, RemoveFirstValue(solution_code, code_guess[k]), k + 1)
    ELSE CountCorrectColor(code_guess, solution_code, k + 1)

\* the first loop of calc_pins: the positions, in order, at which guess
\* and solution hold the same colour
CorrectPositions(code_guess, solution_code) ==
    SelectSeq([i \in 1..4 |-> IF code_guess[i] = solution_code[i] THEN i ELSE 0], LAMBDA i : i # 0)

\* the list without the elements at the given positions
WithoutPositions(ls, positions) ==
    ConcatAll([i \in 1..Len(ls) |-> IF Contains(positions, i) THEN <<>> ELSE <<ls[i]>>])

\* calc_pins: the pins, and the two lists of the caller after the call
calc_pins(code_guess, solution_code) ==
    [pins |-> [i \in 1..Len(CorrectPositions(code_guess, solution_code)) |-> CORRECT_POSITION]
              \o [i \in 1..CountCorrectColor(
                             WithoutPositions(code_guess, CorrectPositions(code_guess, solution_code)),
                             WithoutPositions(solution_code, CorrectPositions(code_guess, solution_code)),
                             1) |-> CORRECT_COLOR],
     code_guess |-> code_guess,
     solution_code |-> solution_code]

(***************************************************************************)
(* Specification of the pins: a caller hands calc_pins a guess and a       *)
(* solution of four colours.                                               *)
(***************************************************************************)
MaxPinColors == 3

Codes == [1..4 -> {COLORS[k] : k \in 1..MaxPinColors}]

InitPins ==
    /\ text = <<>>
    /\ opts \in [fn : {"calc_pins"}, code_guess : Codes, solution_code : Codes]
    /\ pc = "input"
    /\ res = NoResult
    /\ log = <<>>

CalcPins ==
    /\ pc = "input"
    /\ res' = calc_pins(opts.code_guess, opts.solution_code)
    /\ pc' = "done"
    /\ UNCHANGED <<text, opts, log>>

NextPins == CalcPins

SpecPins == InitPins /\ [][NextPins]_vars

PinsDone == pc = "done" /\ opts.fn = "calc_pins"

\* how often a colour stands in a code
ColourCount(code, colour) == Cardinality({i \in 1..4 : code[i] = colour})

Min(a, b) == IF a < b THEN a ELSE b

RECURSIVE SumOfMin(_, _, _)
\* the sum, over the colours from the k-th on, of the smaller of the two
\* counts of the colour
SumOfMin(code_guess, solution_code, k) ==
    IF k > Len(COLORS) THEN 0
    ELSE Min(ColourCount(code_guess, COLORS[k]), ColourCount(solution_code, COLORS[k]))
         + SumOfMin(code_guess, solution_code, k + 1)

SamePositions(code_guess, solution_code) ==
    Cardinality({i \in 1..4 : code_guess[i] = solution_code[i]})

\* C35: for every guess and solution of four colours calc_pins returns as
\* many CORRECT_POSITION pins as there are positions with the same colour,
\* followed by as many CORRECT_COLOR pins as the sum over the colours of
\* the smaller count less the CORRECT_POSITION pins; there are at most
\* four pins and the two lists are as they were.
C35_pins_by_position_and_colour ==
    PinsDone =>
        /\ res.pins =
               [i \in 1..SamePositions(opts.code_guess, opts.solution_code) |-> CORRECT_POSITION]
               \o [i \in 1..(SumOfMin(opts.code_guess, opts.solution_code, 1)
                             - SamePositions(opts.code_guess, opts.solution_code)) |-> CORRECT_COLOR]
        /\ Len(res.pins) <= 4
        /\ res.code_guess = opts.code_guess
        /\ res.solution_code = opts.solution_code

\* the guess G G R B for the solution R G G G: one colour in place, the
\* other G and the R elsewhere, the B nowhere
C35_witness_repeated_colour ==
    /\ PinsDone
    /\ opts.code_guess = <<Color("G"), Color("G"), Color("R"), Color("B")>>
    /\ opts.solution_code = <<Color("R"), Color("G"), Color("G"), Color("G")>>
    /\ res.pins = <<CORRECT_POSITION, CORRECT_COLOR, CORRECT_COLOR>>

(***************************************************************************)
(* Mastermind: the game.  res holds the state of the process: the two      *)
(* module globals current_guess and confirm_guess, the locals of the       *)
(* running play_one_game and the number of games started.                  *)
(***************************************************************************)
PyList(s) == [kind |-> "list", seq |-> s]

COMMANDS == <<<<"/", "H", "i", "l", "f", "e">>>>
EXIT_CODES == <<<<"/", "E", "n", "d", "e">>>>

INVALID_INPUT_MSG == Str(<<"<", "r", ">", "U", "n", "g", "u", "e", "l", "t", "i", "g", "e",
                           " ", "E", "i", "n", "g", "a", "b", "e", ".">>)

\* a rejection that also forgets the pending guess and the confirm flag
Rejected_forgetting_guess(current_guess, confirm_guess) ==
    [msg |-> INVALID_INPUT_MSG, current_guess |-> None, confirm_guess |-> FALSE]

\* validate_guess returns INVALID_INPUT_MSG: the globals are as they were
Rejected(current_guess, confirm_guess) ==
    [msg |-> INVALID_INPUT_MSG, current_guess |-> current_guess, confirm_guess |-> confirm_guess]

\* validate_guess returns None after it has assigned the two globals
Accepted(current_guess, confirm_guess) ==
    [msg |-> None, current_guess |-> current_guess, confirm_guess |-> confirm_guess]

\* re.sub(r'[ ,]', '', guess.upper())
WithoutBlanksAndCommas(guess) == SelectSeq(upper(guess), LAMBDA c : c \notin {" ", ","})

\* validate_guess from the test for a single tile on, a final '.' removed
ValidateTiles(guess, confirm_guess_local, current_guess, confirm_guess) ==
    IF Len(guess) = 2 /\ guess[1] \in {"1", "2", "3", "4"} /\ Contains(AVAILABLE_INPUT_LETTERS, guess[2])
    THEN Accepted(PyTuple(<<PyInt(DigitVal(guess[1]) - 1), LETTER_COLOR_MAPPING(guess[2])>>),
                  confirm_guess_local)
    ELSE IF Len(guess) # 4
    THEN Rejected(current_guess, confirm_guess)
    ELSE IF \E i \in 1..Len(guess) : ~Contains(AVAILABLE_INPUT_LETTERS, guess[i])
    THEN Rejected(current_guess, confirm_guess)
    ELSE Accepted(PyList([i \in 1..Len(guess) |-> LETTER_COLOR_MAPPING(guess[i])]), confirm_guess_local)

\* validate_guess from the test for the empty guess on
ValidateStripped(guess, current_guess, confirm_guess) ==
    IF Len(guess) = 0
    THEN Rejected(current_guess, confirm_guess)
    ELSE IF guess = <<".">>
    THEN Accepted(current_guess, TRUE)
    ELSE IF guess[Len(guess)] = "."
    THEN ValidateTiles(SubSeq(guess, 1, Len(guess) - 1), TRUE, current_guess, confirm_guess)
    ELSE ValidateTiles(guess, FALSE, current_guess, confirm_guess)

\* validate_guess: the message returned and the two globals after the call
validate_guess(guess, current_guess, confirm_guess) ==
    ValidateStripped(WithoutBlanksAndCommas(guess), current_guess, confirm_guess)

\* set_tile: index is 0-based
set_tile(row, index, value) ==
    IF IsColor(value) THEN [row EXCEPT ![index + 1] = value]
    ELSE IF value = PyInt(DELETE) THEN [row EXCEPT ![index + 1] = None]
    ELSE row

RECURSIVE SetTilesFrom(_, _, _)
\* for (i, g) in enumerate(current_guess): set_tile(row, i, g), from the
\* i-th value on
SetTilesFrom(row, values, i) ==
    IF i > Len(values) THEN row
    ELSE SetTilesFrom(set_tile(row, i - 1, values[i]), values, i + 1)

\* a guess is always laid into the first row
MarkedRow_first(n_codes_guessed) == 1

\* rows[n_codes_guessed] and pins[n_codes_guessed]: the place of the 0-based
\* index in the sequences of the model
MarkedRow(n_codes_guessed) == n_codes_guessed + 1

\* the row after the pending guess has been laid into it
RowWithGuess(row, current_guess) ==
    IF current_guess.kind = "list" THEN SetTilesFrom(row, current_guess.seq, 1)
    ELSE IF current_guess.kind = "seq"
    THEN set_tile(row, current_guess.seq[1].n, current_guess.seq[2])
    ELSE row

\* play_one_game: the pending guess is laid into the row of the attempt
LayGuess(g) ==
    [g EXCEPT !.rows[MarkedRow(g.n_codes_guessed)] = RowWithGuess(@, g.current_guess)]

RowIsFull(row) == \A i \in 1..Len(row) : IsColor(row[i])

\* a confirmation that counts the attempt before it compares the row with
\* the solution
CountAttempt_counting_first(g) ==
    IF g.n_codes_guessed + 1 = LENGTH
    THEN [g EXCEPT !.pins[MarkedRow(g.n_codes_guessed)] =
                       calc_pins(g.rows[MarkedRow(g.n_codes_guessed)], g.solution_code).pins,
                   !.n_codes_guessed = @ + 1,
                   !.outcome = "lost"]
    ELSE IF g.rows[MarkedRow(g.n_codes_guessed)] = g.solution_code
    THEN [g EXCEPT !.pins[MarkedRow(g.n_codes_guessed)] =
                       calc_pins(g.rows[MarkedRow(g.n_codes_guessed)], g.solution_code).pins,
                   !.outcome = "won"]
    ELSE [g EXCEPT !.pins[MarkedRow(g.n_codes_guessed)] =
                       calc_pins(g.rows[MarkedRow(g.n_codes_guessed)], g.solution_code).pins,
                   !.n_codes_guessed = @ + 1,
                   !.current_guess = None,
                   !.confirm_guess = FALSE]

\* play_one_game: the row is confirmed, the pins are set and the game is
\* won, lost or goes on with the next row
CountAttempt(g) ==
    IF g.rows[MarkedRow(g.n_codes_guessed)] = g.solution_code
    THEN [g EXCEPT !.pins[MarkedRow(g.n_codes_guessed)] =
                       calc_pins(g.rows[MarkedRow(g.n_codes_guessed)], g.solution_code).pins,
                   !.outcome = "won"]
    ELSE IF g.n_codes_guessed + 1 = LENGTH
    THEN [g EXCEPT !.pins[MarkedRow(g.n_codes_guessed)] =
                       calc_pins(g.rows[MarkedRow(g.n_codes_guessed)], g.solution_code).pins,
                   !.n_codes_guessed = @ + 1,
                   !.outcome = "lost"]
    ELSE [g EXCEPT !.pins[MarkedRow(g.n_codes_guessed)] =
                       calc_pins(g.rows[MarkedRow(g.n_codes_guessed)], g.solution_code).pins,
                   !.n_codes_guessed = @ + 1,
                   !.current_guess = None,
                   !.confirm_guess = FALSE]

\* a confirmation that does not look at the row
ConfirmGuess_without_row_test(g) ==
    IF ~g.confirm_guess THEN g ELSE CountAttempt(g)

\* play_one_game: the branch "if confirm_guess"
ConfirmGuess(g) ==
    IF ~g.confirm_guess THEN g
    ELSE IF g.current_guess = None \/ ~RowIsFull(g.rows[MarkedRow(g.n_codes_guessed)])
    THEN [g EXCEPT !.show_hint_confirmation_not_possible = TRUE, !.confirm_guess = FALSE]
    ELSE CountAttempt(g)

\* what the game prints after an accepted line, up to the next prompt
PrintsAfterGuess(g) ==
    IF g.outcome = "won" THEN <<EvCall("print_all"), EvCall("won")>>
    ELSE IF g.outcome = "lost" THEN <<EvCall("print_all"), EvCall("lost")>>
    ELSE IF g.show_hint_confirmation_not_possible
    THEN <<EvCall("print_all"), EvCall("hint_confirmation_not_possible")>>
    ELSE <<EvCall("print_all")>>

\* the head of the loop of play_one_game: the hint is shown once
HintShown(g) == [g EXCEPT !.show_hint_confirmation_not_possible = FALSE]

\* play_one_game up to its loop: a new board; the globals are not assigned
play_one_game(g, solution_code) ==
    [g EXCEPT !.solution_code = solution_code,
              !.rows = [i \in 1..LENGTH |-> [j \in 1..4 |-> None]],
              !.pins = [i \in 1..LENGTH |-> <<>>],
              !.n_codes_guessed = 0,
              !.show_hint_confirmation_not_possible = FALSE,
              !.outcome = "playing",
              !.games = @ + 1]

MaxGames == 2

\* random_code draws from all codes; the model draws from these
SolutionCodes == {<<Color("R"), Color("R"), Color("G"), Color("G")>>,
                  <<Color("G"), Color("R"), Color("G"), Color("G")>>}

GuessLines ==
    {<<>>,
     <<".">>,
     <<"r", "r", "g", "g">>,
     <<"G", ",", "R", " ", "G", "G", ".">>,
     <<"1", "G">>,
     <<"4", "x", ".">>,
     <<"2", "-">>,
     <<" ", ",">>,
     <<"R", "G">>,
     <<"5", "R", ".">>,
     <<"R", "G", "B", "Y", ".">>,
     <<"/", "h", "i", "l", "f", "e">>,
     <<"/", "E", "N", "D", "E">>}

PlayAgainLines ==
    {<<>>, <<"j">>, <<"N">>, <<"x">>, <<"/", "H", "i", "l", "f", "e">>, <<"/", "e", "n", "d", "e">>}

InitGame ==
    /\ text = <<>>
    /\ opts = [fn |-> "main"]
    /\ pc = "input_guess"
    /\ \E solution_code \in SolutionCodes :
           res = play_one_game([current_guess |-> None, confirm_guess |-> FALSE,
                                solution_code |-> <<>>, rows |-> <<>>, pins |-> <<>>,
                                n_codes_guessed |-> 0,
                                show_hint_confirmation_not_possible |-> FALSE,
                                outcome |-> "playing", games |-> 0],
                               solution_code)
    /\ log = <<EvCall("print_all")>>

IsHelp(line) == check_command_input(line, COMMANDS, TRUE) # None
IsExit(line) == check_special_input(line, EXIT_CODES, TRUE) # None

\* fancyinput reads an empty line and reads again
EmptyGuess ==
    /\ pc = "input_guess"
    /\ text' = <<>>
    /\ log' = <<>>
    /\ UNCHANGED <<opts, pc, res>>

\* input_guess raises CommandInputException: the instructions are printed
\* and the loop of play_one_game starts over
HelpInGame(line) ==
    /\ pc = "input_guess"
    /\ Len(line) > 0 /\ IsHelp(line)
    /\ text' = line
    /\ log' = <<EvCall("print_game_instructions"), EvCall("print_all")>>
    /\ UNCHANGED <<opts, pc, res>>

\* the exit code: print_program_ended and sys.exit()
ExitInGame(line) ==
    /\ pc = "input_guess"
    /\ Len(line) > 0 /\ ~IsHelp(line) /\ IsExit(line)
    /\ text' = line
    /\ pc' = "exited"
    /\ log' = <<EvCall("print_program_ended")>>
    /\ UNCHANGED <<opts, res>>

\* validate_guess rejects the line: fancyinput prints the message and reads
\* again
InvalidGuess(line) ==
    /\ pc = "input_guess"
    /\ Len(line) > 0 /\ ~IsHelp(line) /\ ~IsExit(line)
    /\ validate_guess(line, res.current_guess, res.confirm_guess).msg # None
    /\ text' = line
    /\ res' = [res EXCEPT
                  !.current_guess = validate_guess(line, res.current_guess, res.confirm_guess).current_guess,
                  !.confirm_guess = validate_guess(line, res.current_guess, res.confirm_guess).confirm_guess]
    /\ log' = <<EvPrint("fancyprintf", INVALID_INPUT_MSG.str)>>
    /\ UNCHANGED <<opts, pc>>

\* the game after validate_guess has accepted the line and input_guess has
\* returned, before the next pass of the loop starts
AfterGuess(g, line) ==
    ConfirmGuess(LayGuess(
        [g EXCEPT !.current_guess = validate_guess(line, g.current_guess, g.confirm_guess).current_guess,
                  !.confirm_guess = validate_guess(line, g.current_guess, g.confirm_guess).confirm_guess]))

\* validate_guess accepts the line: one pass of the loop of play_one_game
ValidGuess(line) ==
    /\ pc = "input_guess"
    /\ Len(line) > 0 /\ ~IsHelp(line) /\ ~IsExit(line)
    /\ validate_guess(line, res.current_guess, res.confirm_guess).msg = None
    /\ text' = line
    /\ res' = HintShown(AfterGuess(res, line))
    /\ log' = PrintsAfterGuess(AfterGuess(res, line))
    /\ pc' = IF AfterGuess(res, line).outcome = "playing" THEN "input_guess" ELSE "play_again"
    /\ UNCHANGED opts

\* input_play_again returns True: main calls play_one_game
PlayAgain(line) ==
    /\ pc = "play_again"
    /\ compare_input(line, <<"J">>, TRUE)
    /\ res.games < MaxGames
    /\ text' = line
    /\ \E solution_code \in SolutionCodes : res' = play_one_game(res, solution_code)
    /\ pc' = "input_guess"
    /\ log' = <<EvCall("print_all")>>
    /\ UNCHANGED opts

\* input_play_again returns False: main prints that the program has ended
PlayNoMore(line) ==
    /\ pc = "play_again"
    /\ ~compare_input(line, <<"J">>, TRUE) /\ compare_input(line, <<"n">>, TRUE)
    /\ text' = line
    /\ pc' = "exited"
    /\ log' = <<EvCall("print_program_ended")>>
    /\ UNCHANGED <<opts, res>>

\* the lines fancyinput_yn does not return from: the empty line, the
\* command, the exit code and the invalid answer
PlayAgainOther(line) ==
    /\ pc = "play_again"
    /\ ~compare_input(line, <<"J">>, TRUE) /\ ~compare_input(line, <<"n">>, TRUE)
    /\ text' = line
    /\ pc' = IF Len(line) > 0 /\ ~IsHelp(line) /\ IsExit(line) THEN "exited" ELSE "play_again"
    /\ log' = IF Len(line) = 0 THEN <<>>
              ELSE IF IsHelp(line) THEN <<EvCall("print_game_instructions")>>
              ELSE IF IsExit(line) THEN <<EvCall("print_program_ended")>>
              ELSE <<EvPrint("fancyprintf", <<"J", "/", "n">>)>>
    /\ UNCHANGED <<opts, res>>

NextGame ==
    \/ EmptyGuess
    \/ \E line \in GuessLines : HelpInGame(line)
    \/ \E line \in GuessLines : ExitInGame(line)
    \/ \E line \in GuessLines : InvalidGuess(line)
    \/ \E line \in GuessLines : ValidGuess(line)
    \/ \E line \in PlayAgainLines : PlayAgain(line)
    \/ \E line \in PlayAgainLines : PlayNoMore(line)
    \/ \E line \in PlayAgainLines : PlayAgainOther(line)

SpecGame == InitGame /\ [][NextGame]_vars

GameRunning == opts.fn = "main"

\* C36: an attempt is counted only when a guess is confirmed while all
\* four positions of the row of the attempt hold a colour; the attempt
\* counter never exceeds LENGTH, and the game ends as lost exactly when
\* the LENGTH-th counted attempt is not the solution.
C36_attempts_counted_and_game_lost ==
    [][res'.games = res.games =>
          /\ res'.n_codes_guessed # res.n_codes_guessed =>
                 /\ res'.n_codes_guessed = res.n_codes_guessed + 1
                 /\ validate_guess(text', res.current_guess, res.confirm_guess).msg = None
                 /\ validate_guess(text', res.current_guess, res.confirm_guess).confirm_guess
                 /\ \A i \in 1..4 : IsColor(res'.rows[res.n_codes_guessed + 1][i])
          /\ res'.n_codes_guessed <= LENGTH
          /\ (res.outcome = "playing" /\ res'.outcome = "lost")
                 <=> /\ res.n_codes_guessed = LENGTH - 1
                     /\ res'.n_codes_guessed = LENGTH
                     /\ res'.rows[LENGTH] # res.solution_code]_vars

\* a game lost with the seventh counted row
C36_witness_lost_after_seven_attempts ==
    /\ GameRunning
    /\ pc = "play_again"
    /\ res.outcome = "lost"
    /\ res.n_codes_guessed = LENGTH
    /\ \A k \in 1..LENGTH : RowIsFull(res.rows[k]) /\ res.rows[k] # res.solution_code
    /\ log = <<EvCall("print_all"), EvCall("lost")>>

\* the step reads a line that validate_guess accepts with a confirmation
\* and after which the row of the attempt is full
FullRowConfirmed ==
    /\ pc = "input_guess"
    /\ validate_guess(text', res.current_guess, res.confirm_guess).msg = None
    /\ validate_guess(text', res.current_guess, res.confirm_guess).confirm_guess
    /\ \A i \in 1..4 : IsColor(res'.rows[res.n_codes_guessed + 1][i])

\* C37: the game ends as won exactly when a confirmed full row equals the
\* solution position by position, which is exactly when calc_pins yields
\* four CORRECT_POSITION pins for that row; the game ends at that
\* confirmation, the next line read is the answer to the question for
\* another game, also on the last attempt.
C37_won_exactly_on_solution_row ==
    [][/\ FullRowConfirmed =>
              /\ res'.outcome = "won"
                     <=> \A i \in 1..4 : res'.rows[res.n_codes_guessed + 1][i] = res.solution_code[i]
              /\ res'.outcome = "won"
                     <=> calc_pins(res'.rows[res.n_codes_guessed + 1], res.solution_code).pins
                             = <<CORRECT_POSITION, CORRECT_POSITION, CORRECT_POSITION, CORRECT_POSITION>>
              /\ res'.outcome = "won"
                     => /\ pc' = "play_again"
                        /\ res'.n_codes_guessed = res.n_codes_guessed
                        /\ res'.pins[res.n_codes_guessed + 1]
                               = <<CORRECT_POSITION, CORRECT_POSITION, CORRECT_POSITION, CORRECT_POSITION>>
       /\ (res.outcome = "playing" /\ res'.outcome = "won") => FullRowConfirmed]_vars

\* a game won with the seventh row
C37_witness_won_on_last_attempt ==
    /\ GameRunning
    /\ pc = "play_again"
    /\ res.outcome = "won"
    /\ res.n_codes_guessed = LENGTH - 1
    /\ res.rows[LENGTH] = res.solution_code
    /\ res.pins[LENGTH] = <<CORRECT_POSITION, CORRECT_POSITION, CORRECT_POSITION, CORRECT_POSITION>>
    /\ log = <<EvCall("print_all"), EvCall("won")>>

\* play_one_game has printed the new board and the first line of the game
\* is about to be read
GameStarted ==
    /\ GameRunning
    /\ pc = "input_guess"
    /\ log = <<EvCall("print_all")>>
    /\ text = <<>> \/ compare_input(text, <<"J">>, TRUE)

\* C38: at the start of every game, second and later games included, no
\* guess is pending: a bare '.' as the first input leaves the first row
\* empty, shows the hint that the guess cannot be confirmed and consumes no
\* attempt; the pending guess and the confirm flag of a finished game do
\* not reach the next game.
C38_no_guess_pending_at_game_start ==
    [][GameStarted =>
          /\ res.current_guess = None
          /\ ~res.confirm_guess
          /\ text' = <<".">> =>
                 /\ \A i \in 1..4 : res'.rows[1][i] = None
                 /\ log' = <<EvCall("print_all"), EvCall("hint_confirmation_not_possible")>>
                 /\ res'.n_codes_guessed = 0
                 /\ res'.outcome = "playing"]_vars

\* the first game of the process starts without a pending guess, and a
\* bare '.' as its first input is answered with the hint
C38_first_game_starts_without_guess ==
    [][(GameStarted /\ res.games = 1) =>
          /\ res.current_guess = None
          /\ ~res.confirm_guess
          /\ text' = <<".">> =>
                 /\ \A i \in 1..4 : res'.rows[1][i] = None
                 /\ log' = <<EvCall("print_all"), EvCall("hint_confirmation_not_possible")>>
                 /\ res'.n_codes_guessed = 0
                 /\ res'.outcome = "playing"]_vars

\* the second game starts with the confirmed row of the first game still
\* pending
C38_second_game_starts_with_pending_guess ==
    /\ GameStarted
    /\ res.games = 2
    /\ res.current_guess.kind = "list"
    /\ res.confirm_guess
    /\ \A i \in 1..4 : res.rows[1][i] = None

\* C39: rows and pins with an index below the attempt counter are never
\* modified by later inputs: every tile change applies to the row at the
\* attempt counter only, and a help command changes neither rows, pins nor
\* the attempt counter.
C39_counted_rows_and_pins_kept ==
    [][res'.games = res.games =>
          /\ \A k \in 1..LENGTH :
                 k # res.n_codes_guessed + 1 => res'.rows[k] = res.rows[k]
          /\ \A k \in 1..res.n_codes_guessed : res'.pins[k] = res.pins[k]
          /\ (pc = "input_guess" /\ Len(text') > 0 /\ IsHelp(text'))
                 => /\ res'.rows = res.rows
                    /\ res'.pins = res.pins
                    /\ res'.n_codes_guessed = res.n_codes_guessed]_vars

\* the help command is given while two rows are counted and the third is
\* begun
C39_witness_help_with_rows_counted ==
    /\ GameRunning
    /\ pc = "input_guess"
    /\ IsHelp(text)
    /\ log = <<EvCall("print_game_instructions"), EvCall("print_all")>>
    /\ res.n_codes_guessed = 2
    /\ RowIsFull(res.rows[1]) /\ RowIsFull(res.rows[2])
    /\ Len(res.pins[1]) > 0 /\ Len(res.pins[2]) > 0
    /\ IsColor(res.rows[3][1]) /\ res.rows[3][4] = None

\* C40: validate_guess changes the pending guess and the confirm flag only
\* when it accepts the input: whenever it returns the invalid-input
\* message, current_guess and confirm_guess hold the values they had
\* before the call.
C40_rejected_guess_keeps_globals ==
    [][(pc = "input_guess" /\ log' = <<EvPrint("fancyprintf", INVALID_INPUT_MSG.str)>>)
          => /\ res'.current_guess = res.current_guess
             /\ res'.confirm_guess = res.confirm_guess]_vars

\* a line with a final '.' is rejected while a tile is pending
C40_witness_rejected_with_final_dot ==
    /\ GameRunning
    /\ pc = "input_guess"
    /\ text = <<"5", "R", ".">>
    /\ log = <<EvPrint("fancyprintf", INVALID_INPUT_MSG.str)>>
    /\ res.current_guess = PyTuple(<<PyInt(0), Color("G")>>)
    /\ ~res.confirm_guess

====
